---- MODULE Spec2Model ----
(***************************************************************************)
(* Dispute canonicalization engine of SRDB (app/rag/vector_store.py).      *)
(*                                                                         *)
(* The state is the content of the Postgres tables the engine reads and    *)
(* writes; one action is one committed (or rolled back) call of            *)
(* store_dispute_document, or one ingestion of Gmail messages into the     *)
(* emails table.  Text is a sequence of characters, NULL text is           *)
(* the one-element sequence NullStr, a NULL supplier_id is NoSupplier.     *)
(* Embedding vectors are named by their index in the cosine table          *)
(* Cosine100, which holds 100 * (1 - cosine distance) of every pair.       *)
(***************************************************************************)
EXTENDS Integers, Sequences, FiniteSets, TLC

VARIABLES
    canonical_disputes,   \* rows [dispute_id, supplier_id, dispute_summary]
    dispute_emails,       \* rows [dispute_id, email_id]
    dispute_documents,    \* rows [id, dispute_id, supplier_id, document_text]
    dispute_embeddings,   \* rows [id, dispute_id, supplier_id, embedding, model_name]
    suppliers,            \* rows [supplier_id, name]
    emails,               \* email_id -> row of the emails table
    next_id,              \* the serial columns' next values
    last,                 \* what the last call of store_dispute_document did (none since an ingestion)
    classified,           \* email_id -> columns [label, processed] of the emails table
    classifier            \* the call of classify_pending_emails: position and transaction

vars == <<canonical_disputes, dispute_emails, dispute_documents,
          dispute_embeddings, suppliers, emails, next_id, last,
          classified, classifier>>

-----------------------------------------------------------------------------
(* Bounds and program constants *)

NumEmails == 4

SIMILARITY_THRESHOLD_100 == 82

SUMMARY_MAX_LEN == 280

MERGE_SWEEP_LIMIT == 5

ENSURE_LIMIT == 1

\* largest limit classify_pending_emails is called with
MaxLimit == 3

NoSupplier == 0

NullStr == <<"NULL">>

UNKNOWN_SUPPLIER == "Unknown Supplier"

MODEL_NAME == "text-embedding-3-small"

-----------------------------------------------------------------------------
(* Text *)

\* the characters str.strip() removes: space, newline, tab, carriage return,
\* form feed, then vertical tab, the separators U+001C to U+001F, next line
\* U+0085, no-break space U+00A0 and ogham space U+1680.  The other Unicode
\* spaces (U+2000 to U+200A, U+2028, U+2029, U+202F, U+205F, U+3000) cannot be
\* written in a string of this module.
IsSpace(c) == c \in {" ", "\n", "\t", "\r", "\f", "", "", "", "", "", "", " ", " "}

RECURSIVE LStrip(_)
LStrip(s) == IF s # <<>> /\ IsSpace(Head(s)) THEN LStrip(Tail(s)) ELSE s

RECURSIVE RStrip(_)
RStrip(s) ==
    IF s # <<>> /\ IsSpace(s[Len(s)]) THEN RStrip(SubSeq(s, 1, Len(s) - 1)) ELSE s

\* str.strip()
Strip(s) == RStrip(LStrip(s))

\* s[:n]
Truncate(s, n) == IF Len(s) <= n THEN s ELSE SubSeq(s, 1, n)

\* str.lower() on one character: every cased character a string of this
\* module can hold (ASCII, and the characters U+0080 to U+FFFF whose low byte
\* is 80 or more) with its lower-case form.  A lower-case form that cannot be
\* written is named by its code point: it is a character different from every
\* character that can.
CasePairs ==
    <<<<"A", "a">>, <<"B", "b">>, <<"C", "c">>, <<"D", "d">>, <<"E", "e">>, <<"F", "f">>,
      <<"G", "g">>, <<"H", "h">>, <<"I", "i">>, <<"J", "j">>, <<"K", "k">>, <<"L", "l">>,
      <<"M", "m">>, <<"N", "n">>, <<"O", "o">>, <<"P", "p">>, <<"Q", "q">>, <<"R", "r">>,
      <<"S", "s">>, <<"T", "t">>, <<"U", "u">>, <<"V", "v">>, <<"W", "w">>, <<"X", "x">>,
      <<"Y", "y">>, <<"Z", "z">>, <<"À", "à">>, <<"Á", "á">>, <<"Â", "â">>, <<"Ã", "ã">>,
      <<"Ä", "ä">>, <<"Å", "å">>, <<"Æ", "æ">>, <<"Ç", "ç">>, <<"È", "è">>, <<"É", "é">>,
      <<"Ê", "ê">>, <<"Ë", "ë">>, <<"Ì", "ì">>, <<"Í", "í">>, <<"Î", "î">>, <<"Ï", "ï">>,
      <<"Ð", "ð">>, <<"Ñ", "ñ">>, <<"Ò", "ò">>, <<"Ó", "ó">>, <<"Ô", "ô">>, <<"Õ", "õ">>,
      <<"Ö", "ö">>, <<"Ø", "ø">>, <<"Ù", "ù">>, <<"Ú", "ú">>, <<"Û", "û">>, <<"Ü", "ü">>,
      <<"Ý", "ý">>, <<"Þ", "þ">>, <<"Ɓ", "U+0253">>, <<"Ƃ", "ƃ">>, <<"Ƅ", "ƅ">>, <<"Ɔ", "U+0254">>,
      <<"Ƈ", "ƈ">>, <<"Ɖ", "U+0256">>, <<"Ɗ", "U+0257">>, <<"Ƌ", "ƌ">>, <<"Ǝ", "ǝ">>, <<"Ə", "U+0259">>,
      <<"Ɛ", "U+025B">>, <<"Ƒ", "ƒ">>, <<"Ɠ", "U+0260">>, <<"Ɣ", "U+0263">>, <<"Ɩ", "U+0269">>, <<"Ɨ", "U+0268">>,
      <<"Ƙ", "ƙ">>, <<"Ɯ", "U+026F">>, <<"Ɲ", "U+0272">>, <<"Ɵ", "U+0275">>, <<"Ơ", "ơ">>, <<"Ƣ", "ƣ">>,
      <<"Ƥ", "ƥ">>, <<"Ʀ", "ʀ">>, <<"Ƨ", "ƨ">>, <<"Ʃ", "ʃ">>, <<"Ƭ", "ƭ">>, <<"Ʈ", "ʈ">>,
      <<"Ư", "ư">>, <<"Ʊ", "ʊ">>, <<"Ʋ", "ʋ">>, <<"Ƴ", "ƴ">>, <<"Ƶ", "ƶ">>, <<"Ʒ", "ʒ">>,
      <<"Ƹ", "ƹ">>, <<"Ƽ", "ƽ">>, <<"Ǆ", "ǆ">>, <<"ǅ", "ǆ">>, <<"Ǉ", "ǉ">>, <<"ǈ", "ǉ">>,
      <<"Ǌ", "ǌ">>, <<"ǋ", "ǌ">>, <<"Ǎ", "ǎ">>, <<"Ǐ", "ǐ">>, <<"Ǒ", "ǒ">>, <<"Ǔ", "ǔ">>,
      <<"Ǖ", "ǖ">>, <<"Ǘ", "ǘ">>, <<"Ǚ", "ǚ">>, <<"Ǜ", "ǜ">>, <<"Ǟ", "ǟ">>, <<"Ǡ", "ǡ">>,
      <<"Ǣ", "ǣ">>, <<"Ǥ", "ǥ">>, <<"Ǧ", "ǧ">>, <<"Ǩ", "ǩ">>, <<"Ǫ", "ǫ">>, <<"Ǭ", "ǭ">>,
      <<"Ǯ", "ǯ">>, <<"Ǳ", "ǳ">>, <<"ǲ", "ǳ">>, <<"Ǵ", "ǵ">>, <<"Ƕ", "ƕ">>, <<"Ƿ", "ƿ">>,
      <<"Ǹ", "ǹ">>, <<"Ǻ", "ǻ">>, <<"Ǽ", "ǽ">>, <<"Ǿ", "ǿ">>, <<"Ά", "ά">>, <<"Έ", "έ">>,
      <<"Ή", "ή">>, <<"Ί", "ί">>, <<"Ό", "ό">>, <<"Ύ", "ύ">>, <<"Ώ", "ώ">>, <<"Α", "α">>,
      <<"Β", "β">>, <<"Γ", "γ">>, <<"Δ", "δ">>, <<"Ε", "ε">>, <<"Ζ", "ζ">>, <<"Η", "η">>,
      <<"Θ", "θ">>, <<"Ι", "ι">>, <<"Κ", "κ">>, <<"Λ", "λ">>, <<"Μ", "μ">>, <<"Ν", "ν">>,
      <<"Ξ", "ξ">>, <<"Ο", "ο">>, <<"Π", "π">>, <<"Ρ", "ρ">>, <<"Σ", "σ">>, <<"Τ", "τ">>,
      <<"Υ", "υ">>, <<"Φ", "φ">>, <<"Χ", "χ">>, <<"Ψ", "ψ">>, <<"Ω", "ω">>, <<"Ϊ", "ϊ">>,
      <<"Ϋ", "ϋ">>, <<"Ϗ", "ϗ">>, <<"Ϙ", "ϙ">>, <<"Ϛ", "ϛ">>, <<"Ϝ", "ϝ">>, <<"Ϟ", "ϟ">>,
      <<"Ϡ", "ϡ">>, <<"Ϣ", "ϣ">>, <<"Ϥ", "ϥ">>, <<"Ϧ", "ϧ">>, <<"Ϩ", "ϩ">>, <<"Ϫ", "ϫ">>,
      <<"Ϭ", "ϭ">>, <<"Ϯ", "ϯ">>, <<"ϴ", "θ">>, <<"Ϸ", "ϸ">>, <<"Ϲ", "ϲ">>, <<"Ϻ", "ϻ">>,
      <<"Ͻ", "U+037B">>, <<"Ͼ", "U+037C">>, <<"Ͽ", "U+037D">>, <<"Ҁ", "ҁ">>, <<"Ҋ", "ҋ">>, <<"Ҍ", "ҍ">>,
      <<"Ҏ", "ҏ">>, <<"Ґ", "ґ">>, <<"Ғ", "ғ">>, <<"Ҕ", "ҕ">>, <<"Җ", "җ">>, <<"Ҙ", "ҙ">>,
      <<"Қ", "қ">>, <<"Ҝ", "ҝ">>, <<"Ҟ", "ҟ">>, <<"Ҡ", "ҡ">>, <<"Ң", "ң">>, <<"Ҥ", "ҥ">>,
      <<"Ҧ", "ҧ">>, <<"Ҩ", "ҩ">>, <<"Ҫ", "ҫ">>, <<"Ҭ", "ҭ">>, <<"Ү", "ү">>, <<"Ұ", "ұ">>,
      <<"Ҳ", "ҳ">>, <<"Ҵ", "ҵ">>, <<"Ҷ", "ҷ">>, <<"Ҹ", "ҹ">>, <<"Һ", "һ">>, <<"Ҽ", "ҽ">>,
      <<"Ҿ", "ҿ">>, <<"Ӏ", "ӏ">>, <<"Ӂ", "ӂ">>, <<"Ӄ", "ӄ">>, <<"Ӆ", "ӆ">>, <<"Ӈ", "ӈ">>,
      <<"Ӊ", "ӊ">>, <<"Ӌ", "ӌ">>, <<"Ӎ", "ӎ">>, <<"Ӑ", "ӑ">>, <<"Ӓ", "ӓ">>, <<"Ӕ", "ӕ">>,
      <<"Ӗ", "ӗ">>, <<"Ә", "ә">>, <<"Ӛ", "ӛ">>, <<"Ӝ", "ӝ">>, <<"Ӟ", "ӟ">>, <<"Ӡ", "ӡ">>,
      <<"Ӣ", "ӣ">>, <<"Ӥ", "ӥ">>, <<"Ӧ", "ӧ">>, <<"Ө", "ө">>, <<"Ӫ", "ӫ">>, <<"Ӭ", "ӭ">>,
      <<"Ӯ", "ӯ">>, <<"Ӱ", "ӱ">>, <<"Ӳ", "ӳ">>, <<"Ӵ", "ӵ">>, <<"Ӷ", "ӷ">>, <<"Ӹ", "ӹ">>,
      <<"Ӻ", "ӻ">>, <<"Ӽ", "ӽ">>, <<"Ӿ", "ӿ">>, <<"Ⴀ", "U+2D00">>, <<"Ⴁ", "U+2D01">>, <<"Ⴂ", "U+2D02">>,
      <<"Ⴃ", "U+2D03">>, <<"Ⴄ", "U+2D04">>, <<"Ⴅ", "U+2D05">>, <<"Ⴆ", "U+2D06">>, <<"Ⴇ", "U+2D07">>, <<"Ⴈ", "U+2D08">>,
      <<"Ⴉ", "U+2D09">>, <<"Ⴊ", "U+2D0A">>, <<"Ⴋ", "U+2D0B">>, <<"Ⴌ", "U+2D0C">>, <<"Ⴍ", "U+2D0D">>, <<"Ⴎ", "U+2D0E">>,
      <<"Ⴏ", "U+2D0F">>, <<"Ⴐ", "U+2D10">>, <<"Ⴑ", "U+2D11">>, <<"Ⴒ", "U+2D12">>, <<"Ⴓ", "U+2D13">>, <<"Ⴔ", "U+2D14">>,
      <<"Ⴕ", "U+2D15">>, <<"Ⴖ", "U+2D16">>, <<"Ⴗ", "U+2D17">>, <<"Ⴘ", "U+2D18">>, <<"Ⴙ", "U+2D19">>, <<"Ⴚ", "U+2D1A">>,
      <<"Ⴛ", "U+2D1B">>, <<"Ⴜ", "U+2D1C">>, <<"Ⴝ", "U+2D1D">>, <<"Ⴞ", "U+2D1E">>, <<"Ⴟ", "U+2D1F">>, <<"Ⴠ", "U+2D20">>,
      <<"Ⴡ", "U+2D21">>, <<"Ⴢ", "U+2D22">>, <<"Ⴣ", "U+2D23">>, <<"Ⴤ", "U+2D24">>, <<"Ⴥ", "U+2D25">>, <<"Ⴧ", "U+2D27">>,
      <<"Ⴭ", "U+2D2D">>, <<"Ꭰ", "U+AB70">>, <<"Ꭱ", "U+AB71">>, <<"Ꭲ", "U+AB72">>, <<"Ꭳ", "U+AB73">>, <<"Ꭴ", "U+AB74">>,
      <<"Ꭵ", "U+AB75">>, <<"Ꭶ", "U+AB76">>, <<"Ꭷ", "U+AB77">>, <<"Ꭸ", "U+AB78">>, <<"Ꭹ", "U+AB79">>, <<"Ꭺ", "U+AB7A">>,
      <<"Ꭻ", "U+AB7B">>, <<"Ꭼ", "U+AB7C">>, <<"Ꭽ", "U+AB7D">>, <<"Ꭾ", "U+AB7E">>, <<"Ꭿ", "U+AB7F">>, <<"Ꮀ", "ꮀ">>,
      <<"Ꮁ", "ꮁ">>, <<"Ꮂ", "ꮂ">>, <<"Ꮃ", "ꮃ">>, <<"Ꮄ", "ꮄ">>, <<"Ꮅ", "ꮅ">>, <<"Ꮆ", "ꮆ">>,
      <<"Ꮇ", "ꮇ">>, <<"Ꮈ", "ꮈ">>, <<"Ꮉ", "ꮉ">>, <<"Ꮊ", "ꮊ">>, <<"Ꮋ", "ꮋ">>, <<"Ꮌ", "ꮌ">>,
      <<"Ꮍ", "ꮍ">>, <<"Ꮎ", "ꮎ">>, <<"Ꮏ", "ꮏ">>, <<"Ꮐ", "ꮐ">>, <<"Ꮑ", "ꮑ">>, <<"Ꮒ", "ꮒ">>,
      <<"Ꮓ", "ꮓ">>, <<"Ꮔ", "ꮔ">>, <<"Ꮕ", "ꮕ">>, <<"Ꮖ", "ꮖ">>, <<"Ꮗ", "ꮗ">>, <<"Ꮘ", "ꮘ">>,
      <<"Ꮙ", "ꮙ">>, <<"Ꮚ", "ꮚ">>, <<"Ꮛ", "ꮛ">>, <<"Ꮜ", "ꮜ">>, <<"Ꮝ", "ꮝ">>, <<"Ꮞ", "ꮞ">>,
      <<"Ꮟ", "ꮟ">>, <<"Ꮠ", "ꮠ">>, <<"Ꮡ", "ꮡ">>, <<"Ꮢ", "ꮢ">>, <<"Ꮣ", "ꮣ">>, <<"Ꮤ", "ꮤ">>,
      <<"Ꮥ", "ꮥ">>, <<"Ꮦ", "ꮦ">>, <<"Ꮧ", "ꮧ">>, <<"Ꮨ", "ꮨ">>, <<"Ꮩ", "ꮩ">>, <<"Ꮪ", "ꮪ">>,
      <<"Ꮫ", "ꮫ">>, <<"Ꮬ", "ꮬ">>, <<"Ꮭ", "ꮭ">>, <<"Ꮮ", "ꮮ">>, <<"Ꮯ", "ꮯ">>, <<"Ꮰ", "ꮰ">>,
      <<"Ꮱ", "ꮱ">>, <<"Ꮲ", "ꮲ">>, <<"Ꮳ", "ꮳ">>, <<"Ꮴ", "ꮴ">>, <<"Ꮵ", "ꮵ">>, <<"Ꮶ", "ꮶ">>,
      <<"Ꮷ", "ꮷ">>, <<"Ꮸ", "ꮸ">>, <<"Ꮹ", "ꮹ">>, <<"Ꮺ", "ꮺ">>, <<"Ꮻ", "ꮻ">>, <<"Ꮼ", "ꮼ">>,
      <<"Ꮽ", "ꮽ">>, <<"Ꮾ", "ꮾ">>, <<"Ꮿ", "ꮿ">>, <<"Ᏸ", "ᏸ">>, <<"Ᏹ", "ᏹ">>, <<"Ᏺ", "ᏺ">>,
      <<"Ᏻ", "ᏻ">>, <<"Ᏼ", "ᏼ">>, <<"Ᏽ", "ᏽ">>, <<"Ა", "ა">>, <<"Ბ", "ბ">>, <<"Გ", "გ">>,
      <<"Დ", "დ">>, <<"Ე", "ე">>, <<"Ვ", "ვ">>, <<"Ზ", "ზ">>, <<"Თ", "თ">>, <<"Ი", "ი">>,
      <<"Კ", "კ">>, <<"Ლ", "ლ">>, <<"Მ", "მ">>, <<"Ნ", "ნ">>, <<"Ო", "ო">>, <<"Პ", "პ">>,
      <<"Ჟ", "ჟ">>, <<"Რ", "რ">>, <<"Ს", "ს">>, <<"Ტ", "ტ">>, <<"Უ", "უ">>, <<"Ფ", "ფ">>,
      <<"Ქ", "ქ">>, <<"Ღ", "ღ">>, <<"Ყ", "ყ">>, <<"Შ", "შ">>, <<"Ჩ", "ჩ">>, <<"Ც", "ც">>,
      <<"Ძ", "ძ">>, <<"Წ", "წ">>, <<"Ჭ", "ჭ">>, <<"Ხ", "ხ">>, <<"Ჯ", "ჯ">>, <<"Ჰ", "ჰ">>,
      <<"Ჱ", "ჱ">>, <<"Ჲ", "ჲ">>, <<"Ჳ", "ჳ">>, <<"Ჴ", "ჴ">>, <<"Ჵ", "ჵ">>, <<"Ჶ", "ჶ">>,
      <<"Ჷ", "ჷ">>, <<"Ჸ", "ჸ">>, <<"Ჹ", "ჹ">>, <<"Ჺ", "ჺ">>, <<"Ჽ", "ჽ">>, <<"Ჾ", "ჾ">>,
      <<"Ჿ", "ჿ">>, <<"Ẁ", "ẁ">>, <<"Ẃ", "ẃ">>, <<"Ẅ", "ẅ">>, <<"Ẇ", "ẇ">>, <<"Ẉ", "ẉ">>,
      <<"Ẋ", "ẋ">>, <<"Ẍ", "ẍ">>, <<"Ẏ", "ẏ">>, <<"Ẑ", "ẑ">>, <<"Ẓ", "ẓ">>, <<"Ẕ", "ẕ">>,
      <<"ẞ", "ß">>, <<"Ạ", "ạ">>, <<"Ả", "ả">>, <<"Ấ", "ấ">>, <<"Ầ", "ầ">>, <<"Ẩ", "ẩ">>,
      <<"Ẫ", "ẫ">>, <<"Ậ", "ậ">>, <<"Ắ", "ắ">>, <<"Ằ", "ằ">>, <<"Ẳ", "ẳ">>, <<"Ẵ", "ẵ">>,
      <<"Ặ", "ặ">>, <<"Ẹ", "ẹ">>, <<"Ẻ", "ẻ">>, <<"Ẽ", "ẽ">>, <<"Ế", "ế">>, <<"Ề", "ề">>,
      <<"Ể", "ể">>, <<"Ễ", "ễ">>, <<"Ệ", "ệ">>, <<"Ỉ", "ỉ">>, <<"Ị", "ị">>, <<"Ọ", "ọ">>,
      <<"Ỏ", "ỏ">>, <<"Ố", "ố">>, <<"Ồ", "ồ">>, <<"Ổ", "ổ">>, <<"Ỗ", "ỗ">>, <<"Ộ", "ộ">>,
      <<"Ớ", "ớ">>, <<"Ờ", "ờ">>, <<"Ở", "ở">>, <<"Ỡ", "ỡ">>, <<"Ợ", "ợ">>, <<"Ụ", "ụ">>,
      <<"Ủ", "ủ">>, <<"Ứ", "ứ">>, <<"Ừ", "ừ">>, <<"Ử", "ử">>, <<"Ữ", "ữ">>, <<"Ự", "ự">>,
      <<"Ỳ", "ỳ">>, <<"Ỵ", "ỵ">>, <<"Ỷ", "ỷ">>, <<"Ỹ", "ỹ">>, <<"Ỻ", "ỻ">>, <<"Ỽ", "ỽ">>,
      <<"Ỿ", "ỿ">>, <<"ᾈ", "ᾀ">>, <<"ᾉ", "ᾁ">>, <<"ᾊ", "ᾂ">>, <<"ᾋ", "ᾃ">>, <<"ᾌ", "ᾄ">>,
      <<"ᾍ", "ᾅ">>, <<"ᾎ", "ᾆ">>, <<"ᾏ", "ᾇ">>, <<"ᾘ", "ᾐ">>, <<"ᾙ", "ᾑ">>, <<"ᾚ", "ᾒ">>,
      <<"ᾛ", "ᾓ">>, <<"ᾜ", "ᾔ">>, <<"ᾝ", "ᾕ">>, <<"ᾞ", "ᾖ">>, <<"ᾟ", "ᾗ">>, <<"ᾨ", "ᾠ">>,
      <<"ᾩ", "ᾡ">>, <<"ᾪ", "ᾢ">>, <<"ᾫ", "ᾣ">>, <<"ᾬ", "ᾤ">>, <<"ᾭ", "ᾥ">>, <<"ᾮ", "ᾦ">>,
      <<"ᾯ", "ᾧ">>, <<"Ᾰ", "ᾰ">>, <<"Ᾱ", "ᾱ">>, <<"Ὰ", "U+1F70">>, <<"Ά", "U+1F71">>, <<"ᾼ", "ᾳ">>,
      <<"Ὲ", "U+1F72">>, <<"Έ", "U+1F73">>, <<"Ὴ", "U+1F74">>, <<"Ή", "U+1F75">>, <<"ῌ", "ῃ">>, <<"Ῐ", "ῐ">>,
      <<"Ῑ", "ῑ">>, <<"Ὶ", "U+1F76">>, <<"Ί", "U+1F77">>, <<"Ῠ", "ῠ">>, <<"Ῡ", "ῡ">>, <<"Ὺ", "U+1F7A">>,
      <<"Ύ", "U+1F7B">>, <<"Ῥ", "ῥ">>, <<"Ὸ", "U+1F78">>, <<"Ό", "U+1F79">>, <<"Ὼ", "U+1F7C">>, <<"Ώ", "U+1F7D">>,
      <<"ῼ", "ῳ">>, <<"Ↄ", "ↄ">>, <<"Ⓐ", "ⓐ">>, <<"Ⓑ", "ⓑ">>, <<"Ⓒ", "ⓒ">>, <<"Ⓓ", "ⓓ">>,
      <<"Ⓔ", "ⓔ">>, <<"Ⓕ", "ⓕ">>, <<"Ⓖ", "ⓖ">>, <<"Ⓗ", "ⓗ">>, <<"Ⓘ", "ⓘ">>, <<"Ⓙ", "ⓙ">>,
      <<"Ⓚ", "ⓚ">>, <<"Ⓛ", "ⓛ">>, <<"Ⓜ", "ⓜ">>, <<"Ⓝ", "ⓝ">>, <<"Ⓞ", "ⓞ">>, <<"Ⓟ", "ⓟ">>,
      <<"Ⓠ", "ⓠ">>, <<"Ⓡ", "ⓡ">>, <<"Ⓢ", "ⓢ">>, <<"Ⓣ", "ⓣ">>, <<"Ⓤ", "ⓤ">>, <<"Ⓥ", "ⓥ">>,
      <<"Ⓦ", "ⓦ">>, <<"Ⓧ", "ⓧ">>, <<"Ⓨ", "ⓨ">>, <<"Ⓩ", "ⓩ">>, <<"Ⲁ", "ⲁ">>, <<"Ⲃ", "ⲃ">>,
      <<"Ⲅ", "ⲅ">>, <<"Ⲇ", "ⲇ">>, <<"Ⲉ", "ⲉ">>, <<"Ⲋ", "ⲋ">>, <<"Ⲍ", "ⲍ">>, <<"Ⲏ", "ⲏ">>,
      <<"Ⲑ", "ⲑ">>, <<"Ⲓ", "ⲓ">>, <<"Ⲕ", "ⲕ">>, <<"Ⲗ", "ⲗ">>, <<"Ⲙ", "ⲙ">>, <<"Ⲛ", "ⲛ">>,
      <<"Ⲝ", "ⲝ">>, <<"Ⲟ", "ⲟ">>, <<"Ⲡ", "ⲡ">>, <<"Ⲣ", "ⲣ">>, <<"Ⲥ", "ⲥ">>, <<"Ⲧ", "ⲧ">>,
      <<"Ⲩ", "ⲩ">>, <<"Ⲫ", "ⲫ">>, <<"Ⲭ", "ⲭ">>, <<"Ⲯ", "ⲯ">>, <<"Ⲱ", "ⲱ">>, <<"Ⲳ", "ⲳ">>,
      <<"Ⲵ", "ⲵ">>, <<"Ⲷ", "ⲷ">>, <<"Ⲹ", "ⲹ">>, <<"Ⲻ", "ⲻ">>, <<"Ⲽ", "ⲽ">>, <<"Ⲿ", "ⲿ">>,
      <<"Ⳁ", "ⳁ">>, <<"Ⳃ", "ⳃ">>, <<"Ⳅ", "ⳅ">>, <<"Ⳇ", "ⳇ">>, <<"Ⳉ", "ⳉ">>, <<"Ⳋ", "ⳋ">>,
      <<"Ⳍ", "ⳍ">>, <<"Ⳏ", "ⳏ">>, <<"Ⳑ", "ⳑ">>, <<"Ⳓ", "ⳓ">>, <<"Ⳕ", "ⳕ">>, <<"Ⳗ", "ⳗ">>,
      <<"Ⳙ", "ⳙ">>, <<"Ⳛ", "ⳛ">>, <<"Ⳝ", "ⳝ">>, <<"Ⳟ", "ⳟ">>, <<"Ⳡ", "ⳡ">>, <<"Ⳣ", "ⳣ">>,
      <<"Ⳬ", "ⳬ">>, <<"Ⳮ", "ⳮ">>, <<"Ⳳ", "ⳳ">>, <<"Ꚁ", "ꚁ">>, <<"Ꚃ", "ꚃ">>, <<"Ꚅ", "ꚅ">>,
      <<"Ꚇ", "ꚇ">>, <<"Ꚉ", "ꚉ">>, <<"Ꚋ", "ꚋ">>, <<"Ꚍ", "ꚍ">>, <<"Ꚏ", "ꚏ">>, <<"Ꚑ", "ꚑ">>,
      <<"Ꚓ", "ꚓ">>, <<"Ꚕ", "ꚕ">>, <<"Ꚗ", "ꚗ">>, <<"Ꚙ", "ꚙ">>, <<"Ꚛ", "ꚛ">>, <<"Ꞁ", "ꞁ">>,
      <<"Ꞃ", "ꞃ">>, <<"Ꞅ", "ꞅ">>, <<"Ꞇ", "ꞇ">>, <<"Ꞌ", "ꞌ">>, <<"Ɥ", "U+0265">>, <<"Ꞑ", "ꞑ">>,
      <<"Ꞓ", "ꞓ">>, <<"Ꞗ", "ꞗ">>, <<"Ꞙ", "ꞙ">>, <<"Ꞛ", "ꞛ">>, <<"Ꞝ", "ꞝ">>, <<"Ꞟ", "ꞟ">>,
      <<"Ꞡ", "ꞡ">>, <<"Ꞣ", "ꞣ">>, <<"Ꞥ", "ꞥ">>, <<"Ꞧ", "ꞧ">>, <<"Ꞩ", "ꞩ">>, <<"Ɦ", "U+0266">>,
      <<"Ɜ", "U+025C">>, <<"Ɡ", "U+0261">>, <<"Ɬ", "U+026C">>, <<"Ɪ", "U+026A">>, <<"Ʞ", "ʞ">>, <<"Ʇ", "ʇ">>,
      <<"Ʝ", "ʝ">>, <<"Ꭓ", "U+AB53">>, <<"Ꞵ", "ꞵ">>, <<"Ꞷ", "ꞷ">>, <<"Ꞹ", "ꞹ">>, <<"Ꞻ", "ꞻ">>,
      <<"Ꞽ", "ꞽ">>, <<"Ꞿ", "ꞿ">>, <<"Ꟁ", "ꟁ">>, <<"Ꟃ", "ꟃ">>, <<"Ꞔ", "ꞔ">>, <<"Ʂ", "ʂ">>,
      <<"Ᶎ", "ᶎ">>, <<"Ꟈ", "ꟈ">>, <<"Ꟊ", "ꟊ">>, <<"Ꟑ", "ꟑ">>, <<"Ꟗ", "ꟗ">>, <<"Ꟙ", "ꟙ">>,
      <<"Ꟶ", "ꟶ">>>>

\* the table as a function from the characters str.lower() changes
LowerTable(pairs) ==
    [c \in {pairs[i][1] : i \in DOMAIN pairs} |->
        pairs[CHOOSE i \in DOMAIN pairs : pairs[i][1] = c][2]]

LowerOf == LowerTable(CasePairs)

\* str.lower() on one character, by the table of the characters it changes
LowerChar(table, c) == IF c \in DOMAIN table THEN table[c] ELSE c

\* the two character classes the lower-casing of a capital sigma looks at,
\* for the characters a string of this module can hold and the lower-case
\* forms named by their code points: case-ignorable characters (apostrophe,
\* full stop, colon, accents, combining marks, modifier letters, format
\* characters) and cased ones.  A character of both classes is passed over
\* as case-ignorable and is listed there only.
CaseClass ==
    [ignorable |->
        {"'", ".", ":", "^", "¨", "­", "¯", "´", "·", "¸", "ʰ", "ʱ",
         "ʲ", "ʳ", "ʴ", "ʵ", "ʶ", "ʷ", "ʸ", "ʹ", "ʺ", "ʻ", "ʼ", "ʽ",
         "ʾ", "ʿ", "ˀ", "ˁ", "˂", "˃", "˄", "˅", "ˆ", "ˇ", "ˈ", "ˉ",
         "ˊ", "ˋ", "ˌ", "ˍ", "ˎ", "ˏ", "ː", "ˑ", "˒", "˓", "˔", "˕",
         "˖", "˗", "˘", "˙", "˚", "˛", "˜", "˝", "˞", "˟", "ˠ", "ˡ",
         "ˢ", "ˣ", "ˤ", "˥", "˦", "˧", "˨", "˩", "˪", "˫", "ˬ", "˭",
         "ˮ", "˯", "˰", "˱", "˲", "˳", "˴", "˵", "˶", "˷", "˸", "˹",
         "˺", "˻", "˼", "˽", "˾", "˿", "΄", "΅", "·", "҃", "҄", "҅",
         "҆", "҇", "҈", "҉", "֑", "֒", "֓", "֔", "֕", "֖", "֗", "֘",
         "֙", "֚", "֛", "֜", "֝", "֞", "֟", "֠", "֡", "֢", "֣", "֤",
         "֥", "֦", "֧", "֨", "֩", "֪", "֫", "֬", "֭", "֮", "֯", "ְ",
         "ֱ", "ֲ", "ֳ", "ִ", "ֵ", "ֶ", "ַ", "ָ", "ֹ", "ֺ", "ֻ", "ּ",
         "ֽ", "ֿ", "ׁ", "ׂ", "ׄ", "ׅ", "ׇ", "״", "ۖ", "ۗ", "ۘ", "ۙ",
         "ۚ", "ۛ", "ۜ", "۝", "۟", "۠", "ۡ", "ۢ", "ۣ", "ۤ", "ۥ", "ۦ",
         "ۧ", "ۨ", "۪", "۫", "۬", "ۭ", "ަ", "ާ", "ި", "ީ", "ު", "ޫ",
         "ެ", "ޭ", "ޮ", "ޯ", "ް", "߫", "߬", "߭", "߮", "߯", "߰", "߱",
         "߲", "߳", "ߴ", "ߵ", "ߺ", "߽", "࢈", "࢐", "࢑", "࢘", "࢙", "࢚",
         "࢛", "࢜", "࢝", "࢞", "࢟", "ࣉ", "࣊", "࣋", "࣌", "࣍", "࣎", "࣏",
         "࣐", "࣑", "࣒", "࣓", "ࣔ", "ࣕ", "ࣖ", "ࣗ", "ࣘ", "ࣙ", "ࣚ", "ࣛ",
         "ࣜ", "ࣝ", "ࣞ", "ࣟ", "࣠", "࣡", "࣢", "ࣣ", "ࣤ", "ࣥ", "ࣦ", "ࣧ",
         "ࣨ", "ࣩ", "࣪", "࣫", "࣬", "࣭", "࣮", "࣯", "ࣰ", "ࣱ", "ࣲ", "ࣳ",
         "ࣴ", "ࣵ", "ࣶ", "ࣷ", "ࣸ", "ࣹ", "ࣺ", "ࣻ", "ࣼ", "ࣽ", "ࣾ", "ࣿ",
         "ঁ", "়", "ু", "ূ", "ৃ", "ৄ", "্", "ৢ", "ৣ", "৾", "ઁ", "ં",
         "઼", "ુ", "ૂ", "ૃ", "ૄ", "ૅ", "ે", "ૈ", "્", "ૢ", "ૣ", "ૺ",
         "ૻ", "ૼ", "૽", "૾", "૿", "ஂ", "ீ", "்", "ಁ", "಼", "ಿ", "ೆ",
         "ೌ", "್", "ೢ", "ೣ", "ඁ", "්", "ි", "ී", "ු", "ූ", "ັ", "ິ",
         "ີ", "ຶ", "ື", "ຸ", "ູ", "຺", "ົ", "ຼ", "ໆ", "່", "້", "໊",
         "໋", "໌", "ໍ", "ྀ", "ཱྀ", "ྂ", "ྃ", "྄", "྆", "྇", "ྍ", "ྎ",
         "ྏ", "ྐ", "ྑ", "ྒ", "ྒྷ", "ྔ", "ྕ", "ྖ", "ྗ", "ྙ", "ྚ", "ྛ",
         "ྜ", "ྜྷ", "ྞ", "ྟ", "ྠ", "ྡ", "ྡྷ", "ྣ", "ྤ", "ྥ", "ྦ", "ྦྷ",
         "ྨ", "ྩ", "ྪ", "ྫ", "ྫྷ", "ྭ", "ྮ", "ྯ", "ྰ", "ྱ", "ྲ", "ླ",
         "ྴ", "ྵ", "ྶ", "ྷ", "ྸ", "ྐྵ", "ྺ", "ྻ", "ྼ", "࿆", "ႂ", "ႅ",
         "ႆ", "ႍ", "ႝ", "ჼ", "឴", "឵", "ិ", "ី", "ឹ", "ឺ", "ុ", "ូ",
         "ួ", "ំ", "៉", "៊", "់", "៌", "៍", "៎", "៏", "័", "៑", "្",
         "៓", "ៗ", "៝", "ᢅ", "ᢆ", "ᢩ", "ᪧ", "᪰", "᪱", "᪲", "᪳", "᪴",
         "᪵", "᪶", "᪷", "᪸", "᪹", "᪺", "᪻", "᪼", "᪽", "᪾", "ᪿ", "ᫀ",
         "᫁", "᫂", "᫃", "᫄", "᫅", "᫆", "᫇", "᫈", "᫉", "᫊", "᫋", "ᫌ",
         "ᫍ", "ᫎ", "ᮀ", "ᮁ", "ᮢ", "ᮣ", "ᮤ", "ᮥ", "ᮨ", "ᮩ", "᮫", "ᮬ",
         "ᮭ", "᯦", "ᯨ", "ᯩ", "ᯭ", "ᯯ", "ᯰ", "ᯱ", "᳐", "᳑", "᳒", "᳔",
         "᳕", "᳖", "᳗", "᳘", "᳙", "᳚", "᳛", "᳜", "᳝", "᳞", "᳟", "᳠",
         "᳢", "᳣", "᳤", "᳥", "᳦", "᳧", "᳨", "᳭", "᳴", "᳸", "᳹", "ᶛ",
         "ᶜ", "ᶝ", "ᶞ", "ᶟ", "ᶠ", "ᶡ", "ᶢ", "ᶣ", "ᶤ", "ᶥ", "ᶦ", "ᶧ",
         "ᶨ", "ᶩ", "ᶪ", "ᶫ", "ᶬ", "ᶭ", "ᶮ", "ᶯ", "ᶰ", "ᶱ", "ᶲ", "ᶳ",
         "ᶴ", "ᶵ", "ᶶ", "ᶷ", "ᶸ", "ᶹ", "ᶺ", "ᶻ", "ᶼ", "ᶽ", "ᶾ", "ᶿ",
         "᷀", "᷁", "᷂", "᷃", "᷄", "᷅", "᷆", "᷇", "᷈", "᷉", "᷊", "᷋",
         "᷌", "᷍", "᷎", "᷏", "᷐", "᷑", "᷒", "ᷓ", "ᷔ", "ᷕ", "ᷖ", "ᷗ",
         "ᷘ", "ᷙ", "ᷚ", "ᷛ", "ᷜ", "ᷝ", "ᷞ", "ᷟ", "ᷠ", "ᷡ", "ᷢ", "ᷣ",
         "ᷤ", "ᷥ", "ᷦ", "ᷧ", "ᷨ", "ᷩ", "ᷪ", "ᷫ", "ᷬ", "ᷭ", "ᷮ", "ᷯ",
         "ᷰ", "ᷱ", "ᷲ", "ᷳ", "ᷴ", "᷵", "᷶", "᷷", "᷸", "᷹", "᷺", "᷻",
         "᷼", "᷽", "᷾", "᷿", "᾽", "᾿", "῀", "῁", "῍", "῎", "῏", "῝",
         "῞", "῟", "῭", "΅", "`", "´", "῾", "ₐ", "ₑ", "ₒ", "ₓ", "ₔ",
         "ₕ", "ₖ", "ₗ", "ₘ", "ₙ", "ₚ", "ₛ", "ₜ", "⃐", "⃑", "⃒", "⃓",
         "⃔", "⃕", "⃖", "⃗", "⃘", "⃙", "⃚", "⃛", "⃜", "⃝", "⃞", "⃟",
         "⃠", "⃡", "⃢", "⃣", "⃤", "⃥", "⃦", "⃧", "⃨", "⃩", "⃪", "⃫",
         "⃬", "⃭", "⃮", "⃯", "⃰", "⳯", "⳰", "⳱", "ⷠ", "ⷡ", "ⷢ", "ⷣ",
         "ⷤ", "ⷥ", "ⷦ", "ⷧ", "ⷨ", "ⷩ", "ⷪ", "ⷫ", "ⷬ", "ⷭ", "ⷮ", "ⷯ",
         "ⷰ", "ⷱ", "ⷲ", "ⷳ", "ⷴ", "ⷵ", "ⷶ", "ⷷ", "ⷸ", "ⷹ", "ⷺ", "ⷻ",
         "ⷼ", "ⷽ", "ⷾ", "ⷿ", "゙", "゚", "゛", "゜", "ゝ", "ゞ", "ー", "ヽ",
         "ヾ", "ꓸ", "ꓹ", "ꓺ", "ꓻ", "ꓼ", "ꓽ", "ꚜ", "ꚝ", "ꚞ", "ꚟ", "꛰",
         "꛱", "ꞈ", "꞉", "꞊", "ꟲ", "ꟳ", "ꟴ", "ꟸ", "ꟹ", "꣄", "ꣅ", "꣠",
         "꣡", "꣢", "꣣", "꣤", "꣥", "꣦", "꣧", "꣨", "꣩", "꣪", "꣫", "꣬",
         "꣭", "꣮", "꣯", "꣰", "꣱", "ꣿ", "ꦀ", "ꦁ", "ꦂ", "꦳", "ꦶ", "ꦷ",
         "ꦸ", "ꦹ", "ꦼ", "ꦽ", "ꧏ", "ꧥ", "ꧦ", "ꪰ", "ꪲ", "ꪳ", "ꪴ", "ꪷ",
         "ꪸ", "ꪾ", "꪿", "꫁", "ꫝ", "ꫬ", "ꫭ", "ꫳ", "ꫴ", "꫶", "ꯥ", "ꯨ",
         "꯭", "﮲", "﮳", "﮴", "﮵", "﮶", "﮷", "﮸", "﮹", "﮺", "﮻", "﮼",
         "﮽", "﮾", "﮿", "﯀", "﯁", "﯂", "﻿", "ﾞ", "ﾟ", "￣", "￹", "￺",
         "￻"},
     cased |->
        {"A", "B", "C", "D", "E", "F", "G", "H", "I", "J", "K", "L",
         "M", "N", "O", "P", "Q", "R", "S", "T", "U", "V", "W", "X",
         "Y", "Z", "a", "b", "c", "d", "e", "f", "g", "h", "i", "j",
         "k", "l", "m", "n", "o", "p", "q", "r", "s", "t", "u", "v",
         "w", "x", "y", "z", "ª", "µ", "º", "À", "Á", "Â", "Ã", "Ä",
         "Å", "Æ", "Ç", "È", "É", "Ê", "Ë", "Ì", "Í", "Î", "Ï", "Ð",
         "Ñ", "Ò", "Ó", "Ô", "Õ", "Ö", "Ø", "Ù", "Ú", "Û", "Ü", "Ý",
         "Þ", "ß", "à", "á", "â", "ã", "ä", "å", "æ", "ç", "è", "é",
         "ê", "ë", "ì", "í", "î", "ï", "ð", "ñ", "ò", "ó", "ô", "õ",
         "ö", "ø", "ù", "ú", "û", "ü", "ý", "þ", "ÿ", "ƀ", "Ɓ", "Ƃ",
         "ƃ", "Ƅ", "ƅ", "Ɔ", "Ƈ", "ƈ", "Ɖ", "Ɗ", "Ƌ", "ƌ", "ƍ", "Ǝ",
         "Ə", "Ɛ", "Ƒ", "ƒ", "Ɠ", "Ɣ", "ƕ", "Ɩ", "Ɨ", "Ƙ", "ƙ", "ƚ",
         "ƛ", "Ɯ", "Ɲ", "ƞ", "Ɵ", "Ơ", "ơ", "Ƣ", "ƣ", "Ƥ", "ƥ", "Ʀ",
         "Ƨ", "ƨ", "Ʃ", "ƪ", "ƫ", "Ƭ", "ƭ", "Ʈ", "Ư", "ư", "Ʊ", "Ʋ",
         "Ƴ", "ƴ", "Ƶ", "ƶ", "Ʒ", "Ƹ", "ƹ", "ƺ", "Ƽ", "ƽ", "ƾ", "ƿ",
         "Ǆ", "ǅ", "ǆ", "Ǉ", "ǈ", "ǉ", "Ǌ", "ǋ", "ǌ", "Ǎ", "ǎ", "Ǐ",
         "ǐ", "Ǒ", "ǒ", "Ǔ", "ǔ", "Ǖ", "ǖ", "Ǘ", "ǘ", "Ǚ", "ǚ", "Ǜ",
         "ǜ", "ǝ", "Ǟ", "ǟ", "Ǡ", "ǡ", "Ǣ", "ǣ", "Ǥ", "ǥ", "Ǧ", "ǧ",
         "Ǩ", "ǩ", "Ǫ", "ǫ", "Ǭ", "ǭ", "Ǯ", "ǯ", "ǰ", "Ǳ", "ǲ", "ǳ",
         "Ǵ", "ǵ", "Ƕ", "Ƿ", "Ǹ", "ǹ", "Ǻ", "ǻ", "Ǽ", "ǽ", "Ǿ", "ǿ",
         "ʀ", "ʁ", "ʂ", "ʃ", "ʄ", "ʅ", "ʆ", "ʇ", "ʈ", "ʉ", "ʊ", "ʋ",
         "ʌ", "ʍ", "ʎ", "ʏ", "ʐ", "ʑ", "ʒ", "ʓ", "ʕ", "ʖ", "ʗ", "ʘ",
         "ʙ", "ʚ", "ʛ", "ʜ", "ʝ", "ʞ", "ʟ", "ʠ", "ʡ", "ʢ", "ʣ", "ʤ",
         "ʥ", "ʦ", "ʧ", "ʨ", "ʩ", "ʪ", "ʫ", "ʬ", "ʭ", "ʮ", "ʯ", "Ά",
         "Έ", "Ή", "Ί", "Ό", "Ύ", "Ώ", "ΐ", "Α", "Β", "Γ", "Δ", "Ε",
         "Ζ", "Η", "Θ", "Ι", "Κ", "Λ", "Μ", "Ν", "Ξ", "Ο", "Π", "Ρ",
         "Σ", "Τ", "Υ", "Φ", "Χ", "Ψ", "Ω", "Ϊ", "Ϋ", "ά", "έ", "ή",
         "ί", "ΰ", "α", "β", "γ", "δ", "ε", "ζ", "η", "θ", "ι", "κ",
         "λ", "μ", "ν", "ξ", "ο", "π", "ρ", "ς", "σ", "τ", "υ", "φ",
         "χ", "ψ", "ω", "ϊ", "ϋ", "ό", "ύ", "ώ", "Ϗ", "ϐ", "ϑ", "ϒ",
         "ϓ", "ϔ", "ϕ", "ϖ", "ϗ", "Ϙ", "ϙ", "Ϛ", "ϛ", "Ϝ", "ϝ", "Ϟ",
         "ϟ", "Ϡ", "ϡ", "Ϣ", "ϣ", "Ϥ", "ϥ", "Ϧ", "ϧ", "Ϩ", "ϩ", "Ϫ",
         "ϫ", "Ϭ", "ϭ", "Ϯ", "ϯ", "ϰ", "ϱ", "ϲ", "ϳ", "ϴ", "ϵ", "Ϸ",
         "ϸ", "Ϲ", "Ϻ", "ϻ", "ϼ", "Ͻ", "Ͼ", "Ͽ", "Ҁ", "ҁ", "Ҋ", "ҋ",
         "Ҍ", "ҍ", "Ҏ", "ҏ", "Ґ", "ґ", "Ғ", "ғ", "Ҕ", "ҕ", "Җ", "җ",
         "Ҙ", "ҙ", "Қ", "қ", "Ҝ", "ҝ", "Ҟ", "ҟ", "Ҡ", "ҡ", "Ң", "ң",
         "Ҥ", "ҥ", "Ҧ", "ҧ", "Ҩ", "ҩ", "Ҫ", "ҫ", "Ҭ", "ҭ", "Ү", "ү",
         "Ұ", "ұ", "Ҳ", "ҳ", "Ҵ", "ҵ", "Ҷ", "ҷ", "Ҹ", "ҹ", "Һ", "һ",
         "Ҽ", "ҽ", "Ҿ", "ҿ", "Ӏ", "Ӂ", "ӂ", "Ӄ", "ӄ", "Ӆ", "ӆ", "Ӈ",
         "ӈ", "Ӊ", "ӊ", "Ӌ", "ӌ", "Ӎ", "ӎ", "ӏ", "Ӑ", "ӑ", "Ӓ", "ӓ",
         "Ӕ", "ӕ", "Ӗ", "ӗ", "Ә", "ә", "Ӛ", "ӛ", "Ӝ", "ӝ", "Ӟ", "ӟ",
         "Ӡ", "ӡ", "Ӣ", "ӣ", "Ӥ", "ӥ", "Ӧ", "ӧ", "Ө", "ө", "Ӫ", "ӫ",
         "Ӭ", "ӭ", "Ӯ", "ӯ", "Ӱ", "ӱ", "Ӳ", "ӳ", "Ӵ", "ӵ", "Ӷ", "ӷ",
         "Ӹ", "ӹ", "Ӻ", "ӻ", "Ӽ", "ӽ", "Ӿ", "ӿ", "ր", "ց", "ւ", "փ",
         "ք", "օ", "ֆ", "և", "ֈ", "Ⴀ", "Ⴁ", "Ⴂ", "Ⴃ", "Ⴄ", "Ⴅ", "Ⴆ",
         "Ⴇ", "Ⴈ", "Ⴉ", "Ⴊ", "Ⴋ", "Ⴌ", "Ⴍ", "Ⴎ", "Ⴏ", "Ⴐ", "Ⴑ", "Ⴒ",
         "Ⴓ", "Ⴔ", "Ⴕ", "Ⴖ", "Ⴗ", "Ⴘ", "Ⴙ", "Ⴚ", "Ⴛ", "Ⴜ", "Ⴝ", "Ⴞ",
         "Ⴟ", "Ⴠ", "Ⴡ", "Ⴢ", "Ⴣ", "Ⴤ", "Ⴥ", "Ⴧ", "Ⴭ", "ა", "ბ", "გ",
         "დ", "ე", "ვ", "ზ", "თ", "ი", "კ", "ლ", "მ", "ნ", "ო", "პ",
         "ჟ", "რ", "ს", "ტ", "უ", "ფ", "ქ", "ღ", "ყ", "შ", "ჩ", "ც",
         "ძ", "წ", "ჭ", "ხ", "ჯ", "ჰ", "ჱ", "ჲ", "ჳ", "ჴ", "ჵ", "ჶ",
         "ჷ", "ჸ", "ჹ", "ჺ", "ჽ", "ჾ", "ჿ", "Ꭰ", "Ꭱ", "Ꭲ", "Ꭳ", "Ꭴ",
         "Ꭵ", "Ꭶ", "Ꭷ", "Ꭸ", "Ꭹ", "Ꭺ", "Ꭻ", "Ꭼ", "Ꭽ", "Ꭾ", "Ꭿ", "Ꮀ",
         "Ꮁ", "Ꮂ", "Ꮃ", "Ꮄ", "Ꮅ", "Ꮆ", "Ꮇ", "Ꮈ", "Ꮉ", "Ꮊ", "Ꮋ", "Ꮌ",
         "Ꮍ", "Ꮎ", "Ꮏ", "Ꮐ", "Ꮑ", "Ꮒ", "Ꮓ", "Ꮔ", "Ꮕ", "Ꮖ", "Ꮗ", "Ꮘ",
         "Ꮙ", "Ꮚ", "Ꮛ", "Ꮜ", "Ꮝ", "Ꮞ", "Ꮟ", "Ꮠ", "Ꮡ", "Ꮢ", "Ꮣ", "Ꮤ",
         "Ꮥ", "Ꮦ", "Ꮧ", "Ꮨ", "Ꮩ", "Ꮪ", "Ꮫ", "Ꮬ", "Ꮭ", "Ꮮ", "Ꮯ", "Ꮰ",
         "Ꮱ", "Ꮲ", "Ꮳ", "Ꮴ", "Ꮵ", "Ꮶ", "Ꮷ", "Ꮸ", "Ꮹ", "Ꮺ", "Ꮻ", "Ꮼ",
         "Ꮽ", "Ꮾ", "Ꮿ", "Ᏸ", "Ᏹ", "Ᏺ", "Ᏻ", "Ᏼ", "Ᏽ", "ᏸ", "ᏹ", "ᏺ",
         "ᏻ", "ᏼ", "ᏽ", "ᲀ", "ᲁ", "ᲂ", "ᲃ", "ᲄ", "ᲅ", "ᲆ", "ᲇ", "ᲈ",
         "Ა", "Ბ", "Გ", "Დ", "Ე", "Ვ", "Ზ", "Თ", "Ი", "Კ", "Ლ", "Მ",
         "Ნ", "Ო", "Პ", "Ჟ", "Რ", "Ს", "Ტ", "Უ", "Ფ", "Ქ", "Ღ", "Ყ",
         "Შ", "Ჩ", "Ც", "Ძ", "Წ", "Ჭ", "Ხ", "Ჯ", "Ჰ", "Ჱ", "Ჲ", "Ჳ",
         "Ჴ", "Ჵ", "Ჶ", "Ჷ", "Ჸ", "Ჹ", "Ჺ", "Ჽ", "Ჾ", "Ჿ", "ᶀ", "ᶁ",
         "ᶂ", "ᶃ", "ᶄ", "ᶅ", "ᶆ", "ᶇ", "ᶈ", "ᶉ", "ᶊ", "ᶋ", "ᶌ", "ᶍ",
         "ᶎ", "ᶏ", "ᶐ", "ᶑ", "ᶒ", "ᶓ", "ᶔ", "ᶕ", "ᶖ", "ᶗ", "ᶘ", "ᶙ",
         "ᶚ", "Ẁ", "ẁ", "Ẃ", "ẃ", "Ẅ", "ẅ", "Ẇ", "ẇ", "Ẉ", "ẉ", "Ẋ",
         "ẋ", "Ẍ", "ẍ", "Ẏ", "ẏ", "Ẑ", "ẑ", "Ẓ", "ẓ", "Ẕ", "ẕ", "ẖ",
         "ẗ", "ẘ", "ẙ", "ẚ", "ẛ", "ẜ", "ẝ", "ẞ", "ẟ", "Ạ", "ạ", "Ả",
         "ả", "Ấ", "ấ", "Ầ", "ầ", "Ẩ", "ẩ", "Ẫ", "ẫ", "Ậ", "ậ", "Ắ",
         "ắ", "Ằ", "ằ", "Ẳ", "ẳ", "Ẵ", "ẵ", "Ặ", "ặ", "Ẹ", "ẹ", "Ẻ",
         "ẻ", "Ẽ", "ẽ", "Ế", "ế", "Ề", "ề", "Ể", "ể", "Ễ", "ễ", "Ệ",
         "ệ", "Ỉ", "ỉ", "Ị", "ị", "Ọ", "ọ", "Ỏ", "ỏ", "Ố", "ố", "Ồ",
         "ồ", "Ổ", "ổ", "Ỗ", "ỗ", "Ộ", "ộ", "Ớ", "ớ", "Ờ", "ờ", "Ở",
         "ở", "Ỡ", "ỡ", "Ợ", "ợ", "Ụ", "ụ", "Ủ", "ủ", "Ứ", "ứ", "Ừ",
         "ừ", "Ử", "ử", "Ữ", "ữ", "Ự", "ự", "Ỳ", "ỳ", "Ỵ", "ỵ", "Ỷ",
         "ỷ", "Ỹ", "ỹ", "Ỻ", "ỻ", "Ỽ", "ỽ", "Ỿ", "ỿ", "ᾀ", "ᾁ", "ᾂ",
         "ᾃ", "ᾄ", "ᾅ", "ᾆ", "ᾇ", "ᾈ", "ᾉ", "ᾊ", "ᾋ", "ᾌ", "ᾍ", "ᾎ",
         "ᾏ", "ᾐ", "ᾑ", "ᾒ", "ᾓ", "ᾔ", "ᾕ", "ᾖ", "ᾗ", "ᾘ", "ᾙ", "ᾚ",
         "ᾛ", "ᾜ", "ᾝ", "ᾞ", "ᾟ", "ᾠ", "ᾡ", "ᾢ", "ᾣ", "ᾤ", "ᾥ", "ᾦ",
         "ᾧ", "ᾨ", "ᾩ", "ᾪ", "ᾫ", "ᾬ", "ᾭ", "ᾮ", "ᾯ", "ᾰ", "ᾱ", "ᾲ",
         "ᾳ", "ᾴ", "ᾶ", "ᾷ", "Ᾰ", "Ᾱ", "Ὰ", "Ά", "ᾼ", "ι", "ῂ", "ῃ",
         "ῄ", "ῆ", "ῇ", "Ὲ", "Έ", "Ὴ", "Ή", "ῌ", "ῐ", "ῑ", "ῒ", "ΐ",
         "ῖ", "ῗ", "Ῐ", "Ῑ", "Ὶ", "Ί", "ῠ", "ῡ", "ῢ", "ΰ", "ῤ", "ῥ",
         "ῦ", "ῧ", "Ῠ", "Ῡ", "Ὺ", "Ύ", "Ῥ", "ῲ", "ῳ", "ῴ", "ῶ", "ῷ",
         "Ὸ", "Ό", "Ὼ", "Ώ", "ῼ", "Ↄ", "ↄ", "Ⓐ", "Ⓑ", "Ⓒ", "Ⓓ", "Ⓔ",
         "Ⓕ", "Ⓖ", "Ⓗ", "Ⓘ", "Ⓙ", "Ⓚ", "Ⓛ", "Ⓜ", "Ⓝ", "Ⓞ", "Ⓟ", "Ⓠ",
         "Ⓡ", "Ⓢ", "Ⓣ", "Ⓤ", "Ⓥ", "Ⓦ", "Ⓧ", "Ⓨ", "Ⓩ", "ⓐ", "ⓑ", "ⓒ",
         "ⓓ", "ⓔ", "ⓕ", "ⓖ", "ⓗ", "ⓘ", "ⓙ", "ⓚ", "ⓛ", "ⓜ", "ⓝ", "ⓞ",
         "ⓟ", "ⓠ", "ⓡ", "ⓢ", "ⓣ", "ⓤ", "ⓥ", "ⓦ", "ⓧ", "ⓨ", "ⓩ", "Ⲁ",
         "ⲁ", "Ⲃ", "ⲃ", "Ⲅ", "ⲅ", "Ⲇ", "ⲇ", "Ⲉ", "ⲉ", "Ⲋ", "ⲋ", "Ⲍ",
         "ⲍ", "Ⲏ", "ⲏ", "Ⲑ", "ⲑ", "Ⲓ", "ⲓ", "Ⲕ", "ⲕ", "Ⲗ", "ⲗ", "Ⲙ",
         "ⲙ", "Ⲛ", "ⲛ", "Ⲝ", "ⲝ", "Ⲟ", "ⲟ", "Ⲡ", "ⲡ", "Ⲣ", "ⲣ", "Ⲥ",
         "ⲥ", "Ⲧ", "ⲧ", "Ⲩ", "ⲩ", "Ⲫ", "ⲫ", "Ⲭ", "ⲭ", "Ⲯ", "ⲯ", "Ⲱ",
         "ⲱ", "Ⲳ", "ⲳ", "Ⲵ", "ⲵ", "Ⲷ", "ⲷ", "Ⲹ", "ⲹ", "Ⲻ", "ⲻ", "Ⲽ",
         "ⲽ", "Ⲿ", "ⲿ", "Ⳁ", "ⳁ", "Ⳃ", "ⳃ", "Ⳅ", "ⳅ", "Ⳇ", "ⳇ", "Ⳉ",
         "ⳉ", "Ⳋ", "ⳋ", "Ⳍ", "ⳍ", "Ⳏ", "ⳏ", "Ⳑ", "ⳑ", "Ⳓ", "ⳓ", "Ⳕ",
         "ⳕ", "Ⳗ", "ⳗ", "Ⳙ", "ⳙ", "Ⳛ", "ⳛ", "Ⳝ", "ⳝ", "Ⳟ", "ⳟ", "Ⳡ",
         "ⳡ", "Ⳣ", "ⳣ", "ⳤ", "Ⳬ", "ⳬ", "Ⳮ", "ⳮ", "Ⳳ", "ⳳ", "Ꚁ", "ꚁ",
         "Ꚃ", "ꚃ", "Ꚅ", "ꚅ", "Ꚇ", "ꚇ", "Ꚉ", "ꚉ", "Ꚋ", "ꚋ", "Ꚍ", "ꚍ",
         "Ꚏ", "ꚏ", "Ꚑ", "ꚑ", "Ꚓ", "ꚓ", "Ꚕ", "ꚕ", "Ꚗ", "ꚗ", "Ꚙ", "ꚙ",
         "Ꚛ", "ꚛ", "Ꞁ", "ꞁ", "Ꞃ", "ꞃ", "Ꞅ", "ꞅ", "Ꞇ", "ꞇ", "Ꞌ", "ꞌ",
         "Ɥ", "ꞎ", "Ꞑ", "ꞑ", "Ꞓ", "ꞓ", "ꞔ", "ꞕ", "Ꞗ", "ꞗ", "Ꞙ", "ꞙ",
         "Ꞛ", "ꞛ", "Ꞝ", "ꞝ", "Ꞟ", "ꞟ", "Ꞡ", "ꞡ", "Ꞣ", "ꞣ", "Ꞥ", "ꞥ",
         "Ꞧ", "ꞧ", "Ꞩ", "ꞩ", "Ɦ", "Ɜ", "Ɡ", "Ɬ", "Ɪ", "ꞯ", "Ʞ", "Ʇ",
         "Ʝ", "Ꭓ", "Ꞵ", "ꞵ", "Ꞷ", "ꞷ", "Ꞹ", "ꞹ", "Ꞻ", "ꞻ", "Ꞽ", "ꞽ",
         "Ꞿ", "ꞿ", "Ꟁ", "ꟁ", "Ꟃ", "ꟃ", "Ꞔ", "Ʂ", "Ᶎ", "Ꟈ", "ꟈ", "Ꟊ",
         "ꟊ", "Ꟑ", "ꟑ", "ꟓ", "ꟕ", "Ꟗ", "ꟗ", "Ꟙ", "ꟙ", "Ꟶ", "ꟶ", "ꟺ",
         "ꮀ", "ꮁ", "ꮂ", "ꮃ", "ꮄ", "ꮅ", "ꮆ", "ꮇ", "ꮈ", "ꮉ", "ꮊ", "ꮋ",
         "ꮌ", "ꮍ", "ꮎ", "ꮏ", "ꮐ", "ꮑ", "ꮒ", "ꮓ", "ꮔ", "ꮕ", "ꮖ", "ꮗ",
         "ꮘ", "ꮙ", "ꮚ", "ꮛ", "ꮜ", "ꮝ", "ꮞ", "ꮟ", "ꮠ", "ꮡ", "ꮢ", "ꮣ",
         "ꮤ", "ꮥ", "ꮦ", "ꮧ", "ꮨ", "ꮩ", "ꮪ", "ꮫ", "ꮬ", "ꮭ", "ꮮ", "ꮯ",
         "ꮰ", "ꮱ", "ꮲ", "ꮳ", "ꮴ", "ꮵ", "ꮶ", "ꮷ", "ꮸ", "ꮹ", "ꮺ", "ꮻ",
         "ꮼ", "ꮽ", "ꮾ", "ꮿ", "U+0253", "U+0254", "U+0256", "U+0257", "U+0259", "U+025B", "U+025C", "U+0260",
         "U+0261", "U+0263", "U+0265", "U+0266", "U+0268", "U+0269", "U+026A", "U+026C", "U+026F", "U+0272", "U+0275", "U+037B",
         "U+037C", "U+037D", "U+1F70", "U+1F71", "U+1F72", "U+1F73", "U+1F74", "U+1F75", "U+1F76", "U+1F77", "U+1F78", "U+1F79",
         "U+1F7A", "U+1F7B", "U+1F7C", "U+1F7D", "U+2D00", "U+2D01", "U+2D02", "U+2D03", "U+2D04", "U+2D05", "U+2D06", "U+2D07",
         "U+2D08", "U+2D09", "U+2D0A", "U+2D0B", "U+2D0C", "U+2D0D", "U+2D0E", "U+2D0F", "U+2D10", "U+2D11", "U+2D12", "U+2D13",
         "U+2D14", "U+2D15", "U+2D16", "U+2D17", "U+2D18", "U+2D19", "U+2D1A", "U+2D1B", "U+2D1C", "U+2D1D", "U+2D1E", "U+2D1F",
         "U+2D20", "U+2D21", "U+2D22", "U+2D23", "U+2D24", "U+2D25", "U+2D27", "U+2D2D", "U+AB53", "U+AB70", "U+AB71", "U+AB72",
         "U+AB73", "U+AB74", "U+AB75", "U+AB76", "U+AB77", "U+AB78", "U+AB79", "U+AB7A", "U+AB7B", "U+AB7C", "U+AB7D", "U+AB7E",
         "U+AB7F"}]

\* whether the capital sigma at s[i] is a final one: the nearest character
\* before it that is not case-ignorable is cased, and the nearest after it
\* that is not case-ignorable, if any, is not cased
FinalSigma(class, s, i) ==
    /\ \E j \in 1..(i - 1) :
          /\ s[j] \in class.cased
          /\ \A k \in (j + 1)..(i - 1) : s[k] \in class.ignorable
    /\ ~\E j \in (i + 1)..Len(s) :
          /\ s[j] \in class.cased
          /\ \A k \in (i + 1)..(j - 1) : s[k] \in class.ignorable

\* str.lower(): character by character, but for the capital sigma, which
\* becomes the final small sigma where it ends a word
Lower(s) ==
    [i \in 1..Len(s) |->
        IF s[i] = "Σ"
        THEN IF FinalSigma(CaseClass, s, i) THEN "ς" ELSE "σ"
        ELSE LowerChar(LowerOf, s[i])]

\* a in b, for strings
IsSubstring(a, b) ==
    \E i \in 0..(Len(b) - Len(a)) : SubSeq(b, i + 1, i + Len(a)) = a

\* Python truthiness of an optional string: None and "" are falsy
Truthy(s) == s # NullStr /\ s # <<>>

\* str(x) inside an f-string: None is rendered as the word None
Format(s) == IF s = NullStr THEN <<"N", "o", "n", "e">> ELSE s

\* the f-string of store_dispute_document, stripped
Render(email) ==
    Strip(<<"\n", "Subject: ">> \o Format(email.subject)
          \o <<"\n", "Sender: ">> \o Format(email.sender)
          \o <<"\n", "Date: ">> \o Format(email.received_at)
          \o <<"\n", "\n", "Email Content:", "\n">> \o Format(email.body)
          \o <<"\n">>)

-----------------------------------------------------------------------------
(* Ingestion (app/ingestion): the messages of a Gmail inbox are parsed and *)
(* inserted into the emails table.  GmailMailbox is the inbox of the       *)
(* general specification; GmailLongMailbox holds texts longer than the     *)
(* summary limit.                                                          *)

\* n characters c followed by the sequence tail
Filled(n, c, tail) == [i \in 1..n |-> c] \o tail

\* the variable DEFAULT_SUPPLIER_ID of the environment: not set
DEFAULT_SUPPLIER_ID == NoSupplier

\* the supplier the store holds before ingestion, known by its mail domain
Acme == [supplier_id |-> 1, name |-> "Acme", email_domain |-> <<"a">>]

\* From headers: an address of Acme's domain, an address of no known domain
KnownSender == <<"s", "@", "a">>

UnknownSender == <<"u", "@", "e">>

\* a message of the Gmail inbox: its id, the headers From, Subject and Date
\* (NullStr: no such header) and the decoded text/plain body
Message(id, from, subject, date, body) ==
    [id |-> id, From |-> from, Subject |-> subject, Date |-> date, body |-> body]

\* every branch of _extract_body returns the decoded text stripped
_extract_body(message) == Strip(message.body)

\* the Date header names the datetime it is parsed to; None without header
parse_gmail_message(message) ==
    [email_id |-> message.id, sender |-> message.From, subject |-> message.Subject,
     body |-> _extract_body(message), received_at |-> message.Date]

\* email.utils.parseaddr of the standard library (email/_parseaddr.py), by
\* which _extract_domain reads the From header: the character classes of
\* AddrlistClass
specials == {"(", ")", "<", ">", "@", ",", ":", ";", ".", "\"", "[", "]"}

LWS == {" ", "\t"}

CR == {"\r", "\n"}

FWS == LWS \cup CR

atomends == specials \cup LWS \cup CR

phraseends == atomends \ {"."}

\* EMPTYSTRING.join(list)
RECURSIVE Join(_)
Join(list) == IF list = <<>> THEN <<>> ELSE Head(list) \o Join(Tail(list))

\* the loop of getdelimited; pos counts the characters passed, a nested
\* comment is read by getcomment
RECURSIVE getdelimited_loop(_, _, _, _, _, _)
getdelimited_loop(field, pos, endchars, allowcomments, escaped, slist) ==
    IF pos >= Len(field) THEN [pos |-> pos, value |-> slist]
    ELSE LET c == field[pos + 1]
         IN  IF escaped
             THEN getdelimited_loop(field, pos + 1, endchars, allowcomments, FALSE,
                                    Append(slist, c))
             ELSE IF c \in endchars THEN [pos |-> pos + 1, value |-> slist]
             ELSE IF allowcomments /\ c = "("
             THEN LET comment == getdelimited_loop(field, pos + 1, {")", "\r"}, TRUE,
                                                   FALSE, <<>>)
                  IN  getdelimited_loop(field, comment.pos, endchars, allowcomments,
                                        FALSE, slist \o comment.value)
             ELSE IF c = "\\"
             THEN getdelimited_loop(field, pos + 1, endchars, allowcomments, TRUE, slist)
             ELSE getdelimited_loop(field, pos + 1, endchars, allowcomments, FALSE,
                                    Append(slist, c))

getdelimited(field, pos, beginchar, endchars, allowcomments) ==
    IF field[pos + 1] # beginchar THEN [pos |-> pos, value |-> <<>>]
    ELSE getdelimited_loop(field, pos + 1, endchars, allowcomments, FALSE, <<>>)

getquote(field, pos) == getdelimited(field, pos, "\"", {"\"", "\r"}, FALSE)

getcomment(field, pos) == getdelimited(field, pos, "(", {")", "\r"}, TRUE)

getdomainliteral(field, pos) ==
    [getdelimited(field, pos, "[", {"]", "\r"}, FALSE)
        EXCEPT !.value = <<"[">> \o @ \o <<"]">>]

\* email.utils.quote: backslashes and double quotes get a backslash
RECURSIVE quote(_)
quote(str) ==
    IF str = <<>> THEN <<>>
    ELSE (IF Head(str) \in {"\\", "\""} THEN <<"\\", Head(str)>> ELSE <<Head(str)>>)
            \o quote(Tail(str))

RECURSIVE getatom(_, _, _)
getatom(field, pos, ends) ==
    IF pos >= Len(field) \/ field[pos + 1] \in ends THEN [pos |-> pos, value |-> <<>>]
    ELSE [getatom(field, pos + 1, ends) EXCEPT !.value = <<field[pos + 1]>> \o @]

\* skips white space and comments; ws is the white space passed
RECURSIVE gotonext_loop(_, _, _)
gotonext_loop(field, pos, wslist) ==
    IF pos >= Len(field) THEN [pos |-> pos, ws |-> wslist]
    ELSE LET c == field[pos + 1]
         IN  IF c \in LWS \cup {"\n", "\r"}
             THEN gotonext_loop(field, pos + 1,
                                IF c \notin {"\n", "\r"} THEN Append(wslist, c) ELSE wslist)
             ELSE IF c = "(" THEN gotonext_loop(field, getcomment(field, pos).pos, wslist)
             ELSE [pos |-> pos, ws |-> wslist]

gotonext(field, pos) == gotonext_loop(field, pos, <<>>)

\* the loop of getphraselist; getphraselist_append is its plist.append(word)
\* for the quoted string or atom just read
RECURSIVE getphraselist_loop(_, _, _)
getphraselist_append(field, plist, word) ==
    getphraselist_loop(field, word.pos, Append(plist, word.value))

getphraselist_loop(field, pos, plist) ==
    IF pos >= Len(field) THEN [pos |-> pos, plist |-> plist]
    ELSE LET c == field[pos + 1]
         IN  IF c \in FWS THEN getphraselist_loop(field, pos + 1, plist)
             ELSE IF c = "\"" THEN getphraselist_append(field, plist, getquote(field, pos))
             ELSE IF c = "(" THEN getphraselist_loop(field, getcomment(field, pos).pos, plist)
             ELSE IF c \in phraseends THEN [pos |-> pos, plist |-> plist]
             ELSE getphraselist_append(field, plist, getatom(field, pos, phraseends))

getphraselist(field, pos) == getphraselist_loop(field, pos, <<>>)

\* the loop of getdomain; getdomain_append is its sdlist.append(word) for the
\* domain literal or atom just read.  A second "@" ends the parse with an
\* empty domain
RECURSIVE getdomain_loop(_, _, _)
getdomain_append(field, sdlist, word) ==
    getdomain_loop(field, word.pos, Append(sdlist, word.value))

getdomain_loop(field, pos, sdlist) ==
    IF pos >= Len(field) THEN [pos |-> pos, value |-> Join(sdlist)]
    ELSE LET c == field[pos + 1]
         IN  IF c \in LWS THEN getdomain_loop(field, pos + 1, sdlist)
             ELSE IF c = "(" THEN getdomain_loop(field, getcomment(field, pos).pos, sdlist)
             ELSE IF c = "[" THEN getdomain_append(field, sdlist, getdomainliteral(field, pos))
             ELSE IF c = "." THEN getdomain_loop(field, pos + 1, Append(sdlist, <<".">>))
             ELSE IF c = "@" THEN [pos |-> pos, value |-> <<>>]
             ELSE IF c \in atomends THEN [pos |-> pos, value |-> Join(sdlist)]
             ELSE getdomain_append(field, sdlist, getatom(field, pos, atomends))

getdomain(field, pos) == getdomain_loop(field, pos, <<>>)

\* if aslist and not aslist[-1].strip(): aslist.pop()
PopBlank(aslist) ==
    IF aslist # <<>> /\ Strip(aslist[Len(aslist)]) = <<>>
    THEN SubSeq(aslist, 1, Len(aslist) - 1)
    ELSE aslist

\* the loop of getaddrspec over the local part; getaddrspec_ws is the end of
\* its body, after gotonext has read the white space behind the word
RECURSIVE getaddrspec_loop(_, _, _)
getaddrspec_ws(field, aslist, after) ==
    getaddrspec_loop(field, after.pos,
                     IF after.ws # <<>> THEN Append(aslist, after.ws) ELSE aslist)

\* aslist.append(word) for the quoted string or atom just read, then gotonext
getaddrspec_append(field, aslist, word) ==
    getaddrspec_ws(field, Append(aslist, word.value), gotonext(field, word.pos))

getaddrspec_loop(field, pos, aslist) ==
    IF pos >= Len(field) THEN [pos |-> pos, aslist |-> aslist]
    ELSE LET c == field[pos + 1]
         IN  IF c = "."
             THEN getaddrspec_loop(field, gotonext(field, pos + 1).pos,
                                   Append(PopBlank(aslist), <<".">>))
             ELSE IF c = "\""
             THEN getaddrspec_append(field, aslist,
                                     [getquote(field, pos)
                                         EXCEPT !.value = <<"\"">> \o quote(@) \o <<"\"">>])
             ELSE IF c \in atomends THEN [pos |-> pos, aslist |-> PopBlank(aslist)]
             ELSE getaddrspec_append(field, aslist, getatom(field, pos, atomends))

\* the rest of getaddrspec, after the local part: without "@" the local part
\* alone, else local part, "@" and domain, or "" when the domain is empty
getaddrspec_domain(field, local) ==
    IF local.pos >= Len(field) \/ field[local.pos + 1] # "@"
    THEN [pos |-> local.pos, value |-> Join(local.aslist)]
    ELSE [getdomain(field, gotonext(field, local.pos + 1).pos)
             EXCEPT !.value = IF @ = <<>> THEN <<>>
                              ELSE Join(local.aslist) \o <<"@">> \o @]

getaddrspec(field, pos) ==
    getaddrspec_domain(field, getaddrspec_loop(field, gotonext(field, pos).pos, <<>>))

\* the loop of getrouteaddr, after the "<"
RECURSIVE getrouteaddr_loop(_, _, _)
getrouteaddr_loop(field, pos, expectroute) ==
    IF pos >= Len(field) THEN [pos |-> pos, value |-> <<>>]
    ELSE LET c == field[pos + 1]
         IN  IF expectroute
             THEN getrouteaddr_loop(field, gotonext(field, getdomain(field, pos).pos).pos,
                                    FALSE)
             ELSE IF c = ">" THEN [pos |-> pos + 1, value |-> <<>>]
             ELSE IF c = "@"
             THEN getrouteaddr_loop(field, gotonext(field, pos + 1).pos, TRUE)
             ELSE IF c = ":"
             THEN getrouteaddr_loop(field, gotonext(field, pos + 1).pos, FALSE)
             ELSE [getaddrspec(field, pos) EXCEPT !.pos = @ + 1]

getrouteaddr(field, pos) ==
    getrouteaddr_loop(field, gotonext(field, pos + 1).pos, FALSE)

\* getaddress: the addresses (without the names) of the next entry of the
\* field; an entry may be a group of addresses.  OneAddress is the list of the
\* one address read by getaddrspec or getrouteaddr
OneAddress(read) == [pos |-> read.pos, list |-> <<read.value>>]

RECURSIVE getaddress(_, _)
RECURSIVE getgroup_loop(_, _, _)
\* returnlist = returnlist + self.getaddress()
getgroup_extend(field, returnlist, address) ==
    getgroup_loop(field, address.pos, returnlist \o address.list)

\* the body of the loop over a group, after gotonext
getgroup_entry(field, pos, returnlist) ==
    IF pos < Len(field) /\ field[pos + 1] = ";"
    THEN [pos |-> pos + 1, list |-> returnlist]
    ELSE getgroup_extend(field, returnlist, getaddress(field, pos))

getgroup_loop(field, pos, returnlist) ==
    IF pos >= Len(field) THEN [pos |-> pos, list |-> returnlist]
    ELSE getgroup_entry(field, gotonext(field, pos).pos, returnlist)

\* the end of getaddress: gotonext, then a "," is passed
getaddress_comma(field, pos, returnlist) ==
    [pos |-> IF pos < Len(field) /\ field[pos + 1] = "," THEN pos + 1 ELSE pos,
     list |-> returnlist]

getaddress_end(field, found) ==
    getaddress_comma(field, gotonext(field, found.pos).pos, found.list)

\* the branches of getaddress on the character at, after the phrase plist
getaddress_branch(field, oldpos, plist, at) ==
    getaddress_end(field,
        IF at >= Len(field)
        THEN [pos |-> at, list |-> IF plist # <<>> THEN <<plist[1]>> ELSE <<>>]
        ELSE IF field[at + 1] \in {".", "@"} THEN OneAddress(getaddrspec(field, oldpos))
        ELSE IF field[at + 1] = ":" THEN getgroup_loop(field, at + 1, <<>>)
        ELSE IF field[at + 1] = "<" THEN OneAddress(getrouteaddr(field, at))
        ELSE IF plist # <<>> THEN [pos |-> at, list |-> <<plist[1]>>]
        ELSE IF field[at + 1] \in specials THEN [pos |-> at + 1, list |-> <<>>]
        ELSE [pos |-> at, list |-> <<>>])

getaddress_phrase(field, oldpos, phrase) ==
    getaddress_branch(field, oldpos, phrase.plist, gotonext(field, phrase.pos).pos)

getaddress_start(field, oldpos) ==
    getaddress_phrase(field, oldpos, getphraselist(field, oldpos))

getaddress(field, pos) == getaddress_start(field, gotonext(field, pos).pos)

\* addrs[0] of the address list, ('', '') when the list is empty
FirstAddress(addrs) == IF addrs = <<>> THEN <<>> ELSE addrs[1]

\* the address part of the first address of the field, "" when there is none
parseaddr(addr) ==
    IF addr = <<>> THEN <<>> ELSE FirstAddress(getaddress(addr, 0).list)

\* email.split("@", 1)[1].lower(), None without "@" in email
DomainOf(email) ==
    IF ~\E i \in 1..Len(email) : email[i] = "@" THEN NullStr
    ELSE LET at == CHOOSE i \in 1..Len(email) :
                      email[i] = "@" /\ \A j \in 1..(i - 1) : email[j] # "@"
         IN  Lower(SubSeq(email, at + 1, Len(email)))

\* the lower-cased part after the first "@" of the address parseaddr finds in
\* the sender; None without sender or without "@" in the address
_extract_domain(sender) ==
    IF ~Truthy(sender) THEN NullStr ELSE DomainOf(parseaddr(sender))

\* the supplier ids fetchone may return for the domain, the default when
\* there is no domain or no supplier of that domain
SuppliersOfDomain(db, domain) ==
    LET found == {r.supplier_id : r \in {x \in db.suppliers : x.email_domain = domain}}
    IN  IF ~Truthy(domain) THEN {DEFAULT_SUPPLIER_ID}
        ELSE IF found # {} THEN found
        ELSE {DEFAULT_SUPPLIER_ID}

_get_supplier_id(db, sender) == SuppliersOfDomain(db, _extract_domain(sender))

\* INSERT INTO emails ... ON CONFLICT (email_id) DO NOTHING
_insert(db, email) ==
    IF email.email_id \in DOMAIN db.emails THEN db
    ELSE [db EXCEPT !.emails = @ @@ (email.email_id :> email)]

\* lines 44-48 of ingest: the messages in the order the client returned them
RECURSIVE InsertAll(_, _, _)
InsertAll(db, raw_messages, i) ==
    IF i > Len(raw_messages) THEN {db}
    ELSE LET parsed == parse_gmail_message(raw_messages[i])
         IN  UNION {InsertAll(_insert(db, [email_id |-> parsed.email_id,
                                           supplier_id |-> s,
                                           subject |-> parsed.subject,
                                           sender |-> parsed.sender,
                                           received_at |-> parsed.received_at,
                                           body |-> parsed.body]),
                              raw_messages, i + 1)
                       : s \in _get_supplier_id(db, parsed.sender)}

\* the stores ingest may leave
ingest(db, raw_messages) == InsertAll(db, raw_messages, 1)

\* the store before the first ingestion
EmptyStore ==
    [canonical_disputes |-> {}, dispute_emails |-> {}, dispute_documents |-> {},
     dispute_embeddings |-> {}, suppliers |-> {Acme}, emails |-> <<>>,
     next_id |-> [dispute |-> 1, document |-> 1, embedding |-> 1, supplier |-> 2]]

\* the emails table after the ingestion of an inbox into the empty store
Ingested(raw_messages) == (CHOOSE db \in ingest(EmptyStore, raw_messages) : TRUE).emails

\* the inbox: messages 1 and 2 have the same content, and so have 4 and 5
GmailMailbox ==
    <<Message(1, KnownSender, <<"a", "b">>, <<"1">>, <<"x">>),
      Message(2, KnownSender, <<"a", "b">>, <<"1">>, <<"x">>),
      Message(3, KnownSender, <<"c", "d">>, <<"1">>, <<"x">>),
      Message(4, UnknownSender, NullStr, <<"1">>, <<" ", "y", "y", "y">>),
      Message(5, UnknownSender, NullStr, <<"1">>, <<" ", "y", "y", "y">>),
      Message(6, UnknownSender, <<" ">>, <<"2">>, <<"w">>)>>

GmailLongMailbox ==
    <<Message(1, KnownSender, <<"a", "b">>, <<"1">>, <<"x">>),
      Message(2, KnownSender, <<>>, <<"1">>, Filled(SUMMARY_MAX_LEN, "y", <<"z">>)),
      Message(3, KnownSender, Filled(SUMMARY_MAX_LEN, "q", <<"r", "s">>), <<"1">>, <<"x">>)>>

\* an inbox of one supplier: the first email, two emails close to each other
\* and a last email close to all three (messages 1, 2, 3 and 9 of
\* GmailSweepMailbox below, with the same vectors)
GmailMergeMailbox ==
    <<Message(1, KnownSender, <<"d">>, <<"5">>, <<"x">>),
      Message(2, KnownSender, <<"e", "1">>, <<"5">>, <<"x">>),
      Message(3, KnownSender, <<"e", "2">>, <<"5">>, <<"x">>),
      Message(4, KnownSender, <<"g">>, <<"5">>, <<"x">>)>>

\* vector returned by the provider for the text of each row of Mailbox and
\* of LongMailbox
VecOf == <<1, 1, 2, 3, 3, 5>>

LongVecOf == <<1, 2, 3>>

\* the scenario of the testable properties: A and B at 0.9, C at 0.5 to both
GmailScenarioMailbox ==
    <<Message(1, KnownSender, <<"a", "b">>, <<"7">>, <<"x">>),
      Message(2, KnownSender, <<"b", "a", "c">>, <<"8">>, <<"x">>),
      Message(3, KnownSender, <<"d">>, <<"9">>, <<"w">>)>>

ScenarioVecOf == <<2, 3, 4>>

\* 100 * cosine similarity of the provider's vectors (a Gram matrix)
Cosine100 ==
    <<<<100, 82, 81, 50, 90>>,
      <<82, 100, 90, 50, 85>>,
      <<81, 90, 100, 50, 80>>,
      <<50, 50, 50, 100, 50>>,
      <<90, 85, 80, 50, 100>>>>

ScenarioMailbox == Ingested(GmailScenarioMailbox)

LongMailbox == Ingested(GmailLongMailbox)

Mailbox == Ingested(GmailMailbox)

\* an inbox of one supplier whose embeddings form three groups around the
\* last email's: the first email (0.90 to it), five emails close to each other
\* (0.85 to it) and two near-duplicates (0.84 to it); emails of different
\* groups are below the threshold to each other
GmailSweepMailbox ==
    <<Message(1, KnownSender, <<"d">>, <<"5">>, <<"x">>),
      Message(2, KnownSender, <<"e", "1">>, <<"5">>, <<"x">>),
      Message(3, KnownSender, <<"e", "2">>, <<"5">>, <<"x">>),
      Message(4, KnownSender, <<"e", "3">>, <<"5">>, <<"x">>),
      Message(5, KnownSender, <<"e", "4">>, <<"5">>, <<"x">>),
      Message(6, KnownSender, <<"e", "5">>, <<"5">>, <<"x">>),
      Message(7, KnownSender, <<"f", "1">>, <<"5">>, <<"x">>),
      Message(8, KnownSender, <<"f", "2">>, <<"5">>, <<"x">>),
      Message(9, KnownSender, <<"g">>, <<"5">>, <<"x">>)>>

SweepVecOf == <<6, 7, 8, 9, 10, 11, 12, 13, 14>>

\* 100 * cosine similarity of the vectors of SweepMailbox (a Gram matrix)
SweepCosine100 ==
    <<<<100, 67, 67, 67, 67, 67, 66, 66, 90>>,
      <<67, 100, 94, 94, 94, 94, 61, 61, 85>>,
      <<67, 94, 100, 94, 94, 94, 61, 61, 85>>,
      <<67, 94, 94, 100, 94, 94, 61, 61, 85>>,
      <<67, 94, 94, 94, 100, 94, 61, 61, 85>>,
      <<67, 94, 94, 94, 94, 100, 61, 61, 85>>,
      <<66, 61, 61, 61, 61, 61, 100, 94, 84>>,
      <<66, 61, 61, 61, 61, 61, 94, 100, 84>>,
      <<90, 85, 85, 85, 85, 85, 84, 84, 100>>>>

SweepMailbox == Ingested(GmailSweepMailbox)

\* 1 - (embedding <=> literal), in hundredths
Similarity(a, b) ==
    IF a <= Len(Cosine100)
    THEN Cosine100[a][b]
    ELSE SweepCosine100[a - Len(Cosine100)][b - Len(Cosine100)]

MailboxText == [i \in 1..Len(Mailbox) |-> Render(Mailbox[i])]

LongMailboxText == [i \in 1..Len(LongMailbox) |-> Render(LongMailbox[i])]

ScenarioMailboxText == [i \in 1..Len(ScenarioMailbox) |-> Render(ScenarioMailbox[i])]

SweepMailboxText == [i \in 1..Len(SweepMailbox) |-> Render(SweepMailbox[i])]

\* the vector the provider holds for a text
ProviderVector(text) ==
    IF \E i \in 1..Len(Mailbox) : MailboxText[i] = text
    THEN VecOf[CHOOSE i \in 1..Len(Mailbox) : MailboxText[i] = text]
    ELSE IF \E i \in 1..Len(LongMailbox) : LongMailboxText[i] = text
    THEN LongVecOf[CHOOSE i \in 1..Len(LongMailbox) : LongMailboxText[i] = text]
    ELSE IF \E i \in 1..Len(ScenarioMailbox) : ScenarioMailboxText[i] = text
    THEN ScenarioVecOf[CHOOSE i \in 1..Len(ScenarioMailbox) : ScenarioMailboxText[i] = text]
    ELSE SweepVecOf[CHOOSE i \in 1..Len(SweepMailbox) : SweepMailboxText[i] = text]

\* variant: a response without data is not noticed
embed_text_unchecked(text, response_ok) ==
    [raised |-> FALSE, embedding |-> ProviderVector(text)]

\* embed_text: raises when the response holds no data, else returns the vector
embed_text(text, response_ok) ==
    IF ~response_ok
    THEN [raised |-> TRUE, embedding |-> 0]
    ELSE [raised |-> FALSE, embedding |-> ProviderVector(text)]

-----------------------------------------------------------------------------
(* The store: the tables as one record, so that a call is a function of it *)

DB ==
    [canonical_disputes |-> canonical_disputes,
     dispute_emails     |-> dispute_emails,
     dispute_documents  |-> dispute_documents,
     dispute_embeddings |-> dispute_embeddings,
     suppliers          |-> suppliers,
     emails             |-> emails,
     next_id            |-> next_id]

\* SELECT dispute_summary FROM canonical_disputes WHERE dispute_id = d;
\* None when there is no such row
SummaryOf(db, d) ==
    IF \E c \in db.canonical_disputes : c.dispute_id = d
    THEN (CHOOSE c \in db.canonical_disputes : c.dispute_id = d).dispute_summary
    ELSE NullStr

\* variant: the UPDATE has no WHERE clause
SetSummaryAll(db, d, s) ==
    [db EXCEPT !.canonical_disputes = {[c EXCEPT !.dispute_summary = s] : c \in @}]

\* UPDATE canonical_disputes SET dispute_summary = s WHERE dispute_id = d
SetSummary(db, d, s) ==
    [db EXCEPT !.canonical_disputes =
        {IF c.dispute_id = d THEN [c EXCEPT !.dispute_summary = s] ELSE c : c \in @}]

\* variant: the existence check never finds the text
_document_exists_never(db, d, text) == FALSE

_document_exists(db, d, text) ==
    \E r \in db.dispute_documents : r.dispute_id = d /\ r.document_text = text

\* variant: the lookup is not scoped to the supplier
_find_dispute_by_text_any(db, supplier_id, text) ==
    {r.dispute_id : r \in {x \in db.dispute_documents : x.document_text = text}}

\* the dispute_ids the query may return (LIMIT 1 without ORDER BY)
_find_dispute_by_text(db, supplier_id, text) ==
    {r.dispute_id : r \in {x \in db.dispute_documents :
                              x.supplier_id = supplier_id /\ x.document_text = text}}

\* [db, supplier_id]: the sentinel supplier, inserted when missing
_default_supplier_id(db) ==
    LET found == {r.supplier_id : r \in {x \in db.suppliers : x.name = UNKNOWN_SUPPLIER}}
        new   == db.next_id.supplier
    IN  IF found # {}
        THEN [db |-> db, supplier_id |-> CHOOSE x \in found : \A y \in found : x <= y]
        ELSE [db |-> [db EXCEPT
                        !.suppliers = @ \cup {[supplier_id |-> new, name |-> UNKNOWN_SUPPLIER,
                                             email_domain |-> NullStr]},
                        !.next_id.supplier = @ + 1],
              supplier_id |-> new]

\* variant: the supplier_id handed in is ignored
_resolve_supplier_id_sentinel(db, supplier_id) == _default_supplier_id(db)

_resolve_supplier_id(db, supplier_id) ==
    IF supplier_id # NoSupplier
    THEN [db |-> db, supplier_id |-> supplier_id]
    ELSE _default_supplier_id(db)

\* The unique constraint of dispute_emails is in the SQL schema, which is not
\* part of the sources, and ON CONFLICT DO NOTHING names no column.  The data
\* model gives the link as the pair (dispute_id, email_id) and asks for one
\* link per email_id: the key is the pair or email_id alone.  LinkConflict
\* holds the answers the store may give to "does the new row conflict": the
\* same pair conflicts under either key, a link of the email to another
\* dispute conflicts under the key email_id only, and not in a store that
\* already holds two links of one email (its key is the pair).
TwoLinks(db) ==
    \E l1, l2 \in db.dispute_emails : l1.email_id = l2.email_id /\ l1 # l2

LinkConflict(db, dispute_id, email_id) ==
    IF [dispute_id |-> dispute_id, email_id |-> email_id] \in db.dispute_emails
    THEN {TRUE}
    ELSE IF (\E l \in db.dispute_emails : l.email_id = email_id) /\ ~TwoLinks(db)
    THEN {TRUE, FALSE}
    ELSE {FALSE}

\* variant: no link is inserted
_link_email_to_dispute_never(db, dispute_id, email_id) == {db}

\* INSERT INTO dispute_emails ... ON CONFLICT DO NOTHING: the stores the
\* statement may leave
_link_email_to_dispute(db, dispute_id, email_id) ==
    {IF conflict THEN db
     ELSE [db EXCEPT !.dispute_emails =
             @ \cup {[dispute_id |-> dispute_id, email_id |-> email_id]}]
        : conflict \in LinkConflict(db, dispute_id, email_id)}

\* variant: a source summary of the same length wins as well
MergedSummaryOnTie(target_summary, source_summary) ==
    IF ~Truthy(target_summary)
       \/ (Truthy(source_summary) /\ Len(source_summary) >= Len(target_summary))
    THEN source_summary
    ELSE target_summary

\* the summary the merge leaves on the target
MergedSummary(target_summary, source_summary) ==
    IF ~Truthy(target_summary)
       \/ (Truthy(source_summary) /\ Len(source_summary) > Len(target_summary))
    THEN source_summary
    ELSE target_summary

\* variant: every document of the source is deleted, none re-parented
MergeDocumentsDeleteAll(db, source_docs, target) ==
    [db EXCEPT !.dispute_documents =
        {r \in @ : \A i \in 1..Len(source_docs) : source_docs[i].id # r.id}]

\* variant: every document of the source is re-parented, none deleted
MergeDocumentsReparentAll(db, source_docs, target) ==
    [db EXCEPT !.dispute_documents =
        {IF \E i \in 1..Len(source_docs) : source_docs[i].id = r.id
         THEN [r EXCEPT !.dispute_id = target] ELSE r : r \in @}]

\* the rows in every order
RECURSIVE Orders(_)
Orders(rows) ==
    IF rows = {} THEN {<<>>}
    ELSE UNION {{<<r>> \o t : t \in Orders(rows \ {r})} : r \in rows}

\* the rows in the order of their ids
RECURSIVE ById(_)
ById(rows) ==
    IF rows = {} THEN <<>>
    ELSE LET first == CHOOSE r \in rows : \A o \in rows : r.id <= o.id
         IN  <<first>> \o ById(rows \ {first})

\* cursor.fetchall() after SELECT id, document_text FROM dispute_documents
\* WHERE dispute_id = source, which has no ORDER BY: the rows in every order
\* the store may return.  The loop over them treats a row by its text alone,
\* so that orders differ in their outcome only when two rows hold the same
\* text; when none do, one order stands for all.
Fetchall(rows) ==
    IF \A a, b \in rows : a.document_text = b.document_text => a = b
    THEN {ById(rows)}
    ELSE Orders(rows)

\* for doc in source_docs: a document whose text the target holds is
\* deleted, any other is re-parented
RECURSIVE MergeDocuments(_, _, _)
MergeDocuments(db, source_docs, target) ==
    IF source_docs = <<>> THEN db
    ELSE LET doc == Head(source_docs)
             db2 == IF _document_exists(db, target, doc.document_text)
                    THEN [db EXCEPT !.dispute_documents = {r \in @ : r.id # doc.id}]
                    ELSE [db EXCEPT !.dispute_documents =
                            {IF r.id = doc.id THEN [r EXCEPT !.dispute_id = target] ELSE r
                                : r \in @}]
         IN  MergeDocuments(db2, Tail(source_docs), target)

\* variant: the links of the source are left where they are
RelinkEmailsSkipped(db, source, target) == db

\* UPDATE dispute_emails SET dispute_id = target WHERE dispute_id = source
RelinkEmails(db, source, target) ==
    [db EXCEPT !.dispute_emails =
        {IF l.dispute_id = source THEN [l EXCEPT !.dispute_id = target] ELSE l : l \in @}]

\* variant: the embeddings of the source are deleted with it
RelinkEmbeddingsDropped(db, source, target) ==
    [db EXCEPT !.dispute_embeddings = {r \in @ : r.dispute_id # source}]

\* variant: the embeddings of the source are left where they are
RelinkEmbeddingsSkipped(db, source, target) == db

\* UPDATE dispute_embeddings SET dispute_id = target WHERE dispute_id = source
RelinkEmbeddings(db, source, target) ==
    [db EXCEPT !.dispute_embeddings =
        {IF r.dispute_id = source THEN [r EXCEPT !.dispute_id = target] ELSE r : r \in @}]

\* DELETE FROM canonical_disputes WHERE dispute_id = source
DeleteDispute(db, source) ==
    [db EXCEPT !.canonical_disputes = {c \in @ : c.dispute_id # source}]

\* whether UPDATE dispute_emails SET dispute_id = target WHERE dispute_id =
\* source raises a unique violation: an email of the source is linked to the
\* target as well (two links of one email: the key is the pair)
UniqueViolation(db, source, target) ==
    \E l1, l2 \in db.dispute_emails :
        /\ l1.dispute_id = source
        /\ l2.dispute_id = target
        /\ l1.email_id = l2.email_id
        /\ source # target

\* lines 115-133: the summary the target gets
MergeSummary(db, source, target) ==
    SetSummary(db, target, MergedSummary(SummaryOf(db, target), SummaryOf(db, source)))

\* the stores the merge may leave: one for every order in which the
\* source's documents are fetched, none when the UPDATE of the links raises
_merge_duplicate_dispute(db, source, target) ==
    LET db2 == RelinkEmails(MergeSummary(db, source, target), source, target)
    IN  IF UniqueViolation(db, source, target) THEN {}
        ELSE {DeleteDispute(RelinkEmbeddings(MergeDocuments(db2, source_docs, target),
                                             source, target),
                            source)
                 : source_docs \in Fetchall({r \in db2.dispute_documents :
                                                r.dispute_id = source})}

\* ORDER BY embedding <=> q LIMIT k: every order the store may return,
\* rows at the same distance in either order
RECURSIVE NearestRows(_, _, _)
NearestRows(rows, q, k) ==
    IF k = 0 \/ rows = {} THEN {<<>>}
    ELSE LET best == {r \in rows : \A o \in rows :
                          Similarity(r.embedding, q) >= Similarity(o.embedding, q)}
         IN  UNION {{<<r>> \o t : t \in NearestRows(rows \ {r}, q, k - 1)} : r \in best}

\* the row of the result set: dispute_id and similarity.  A row whose
\* similarity is NULL is a record without the field similarity (row.get)
ResultRow(r, q) == [dispute_id |-> r.dispute_id, similarity |-> Similarity(r.embedding, q)]

\* variant: a row exactly at the threshold is skipped
MergeCandidateStrict(row, similarity_threshold) ==
    ~("similarity" \notin DOMAIN row \/ row.similarity <= similarity_threshold)

\* the row is not skipped by line 185: if row.get("similarity") is None or
\* row["similarity"] < similarity_threshold: continue
MergeCandidate(row, similarity_threshold) ==
    ~("similarity" \notin DOMAIN row \/ row.similarity < similarity_threshold)

\* variant: the call's dispute is merged into the candidate
RECURSIVE MergeRowsReversed(_, _, _, _)
MergeRowsReversed(db, rows, dispute_id, similarity_threshold) ==
    IF rows = <<>> THEN {[db |-> db, raised |-> FALSE]}
    ELSE IF ~MergeCandidate(Head(rows), similarity_threshold)
    THEN MergeRowsReversed(db, Tail(rows), dispute_id, similarity_threshold)
    ELSE IF UniqueViolation(db, dispute_id, Head(rows).dispute_id)
    THEN {[db |-> MergeSummary(db, dispute_id, Head(rows).dispute_id), raised |-> TRUE]}
    ELSE UNION {MergeRowsReversed(merged, Tail(rows), dispute_id, similarity_threshold)
                   : merged \in _merge_duplicate_dispute(db, dispute_id,
                                                         Head(rows).dispute_id)}

\* the loop of _merge_similar_disputes over the fetched rows: the stores it
\* may leave, or the store in which a merge raised
RECURSIVE MergeRows(_, _, _, _)
MergeRows(db, rows, dispute_id, similarity_threshold) ==
    IF rows = <<>> THEN {[db |-> db, raised |-> FALSE]}
    ELSE IF ~MergeCandidate(Head(rows), similarity_threshold)
    THEN MergeRows(db, Tail(rows), dispute_id, similarity_threshold)
    ELSE IF UniqueViolation(db, Head(rows).dispute_id, dispute_id)
    THEN {[db |-> MergeSummary(db, Head(rows).dispute_id, dispute_id), raised |-> TRUE]}
    ELSE UNION {MergeRows(merged, Tail(rows), dispute_id, similarity_threshold)
                   : merged \in _merge_duplicate_dispute(db, Head(rows).dispute_id,
                                                         dispute_id)}

\* the result sets the sweep's query may return: dispute_id and similarity of
\* the nearest rows
SweepResults(db, dispute_id, supplier_id, q) ==
    {[i \in 1..Len(m) |-> ResultRow(m[i], q)]
        : m \in NearestRows({r \in db.dispute_embeddings :
                                 r.supplier_id = supplier_id /\ r.dispute_id # dispute_id},
                             q, MERGE_SWEEP_LIMIT)}

\* the results of the sweep: one per result set the query may return
_merge_similar_disputes(db, dispute_id, supplier_id, q, similarity_threshold) ==
    UNION {{[db |-> merged.db, rows |-> rows, raised |-> merged.raised]
               : merged \in MergeRows(db, rows, dispute_id, similarity_threshold)}
              : rows \in SweepResults(db, dispute_id, supplier_id, q)}

\* candidate text of the summary
SummaryCandidate(email) ==
    Truncate(Strip(IF Truthy(email.subject) THEN email.subject
                   ELSE IF Truthy(email.body) THEN email.body ELSE <<>>),
             SUMMARY_MAX_LEN)

\* variant: the candidate replaces the summary whatever its length
SummaryReplacedAnyLength(current, candidate) ==
    IF ~Truthy(current) THEN TRUE
    ELSE ~IsSubstring(Lower(candidate), Lower(current))

\* whether the summary is set to the candidate
SummaryReplaced(current, candidate) ==
    IF ~Truthy(current) THEN TRUE
    ELSE ~IsSubstring(Lower(candidate), Lower(current)) /\ Len(candidate) >= Len(current)

_update_dispute_summary(db, dispute_id, email) ==
    LET candidate == SummaryCandidate(email)
    IN  IF candidate = <<>> THEN db
        ELSE IF SummaryReplaced(SummaryOf(db, dispute_id), candidate)
             THEN SetSummary(db, dispute_id, candidate)
             ELSE db

\* variant: the threshold itself is not enough
ReuseMatchStrict(match, similarity_threshold) ==
    /\ match # <<>>
    /\ "similarity" \in DOMAIN match[1]
    /\ match[1].similarity > similarity_threshold

\* whether the nearest embedding is reused: match and match.get("similarity")
\* is not None and match["similarity"] >= similarity_threshold
ReuseMatch(match, similarity_threshold) ==
    /\ match # <<>>
    /\ "similarity" \in DOMAIN match[1]
    /\ match[1].similarity >= similarity_threshold

\* variant: the link of the email is not looked up
LinkedDisputeNone(db, email) == {}

\* SELECT de.dispute_id FROM dispute_emails de WHERE de.email_id = email_id
LinkedDispute(db, email) == {l \in db.dispute_emails : l.email_id = email.email_id}

\* the results of _ensure_dispute: one per row the nearest-neighbour query may return
_ensure_dispute(db, email, q, similarity_threshold) ==
    LET linked == LinkedDispute(db, email)
    IN  IF linked # {}
        THEN {[db |-> db, dispute_id |-> l.dispute_id, created |-> FALSE, raised |-> FALSE,
               match |-> <<>>]
                 : l \in linked}
        ELSE IF email.supplier_id = NoSupplier
        THEN {[db |-> db, dispute_id |-> 0, created |-> FALSE, raised |-> TRUE,
               match |-> <<>>]}
        ELSE UNION
               {LET match == [i \in 1..Len(m) |-> ResultRow(m[i], q)]
                    new   == db.next_id.dispute
                IN  IF ReuseMatch(match, similarity_threshold)
                    THEN {[db |-> linked_db, dispute_id |-> match[1].dispute_id,
                           created |-> FALSE, raised |-> FALSE, match |-> match]
                             : linked_db \in _link_email_to_dispute(
                                   db, match[1].dispute_id, email.email_id)}
                    ELSE {[db |-> linked_db, dispute_id |-> new, created |-> TRUE,
                           raised |-> FALSE, match |-> match]
                             : linked_db \in _link_email_to_dispute(
                                   [db EXCEPT
                                      !.canonical_disputes = @ \cup
                                         {[dispute_id |-> new,
                                           supplier_id |-> email.supplier_id,
                                           dispute_summary |-> email.subject]},
                                      !.next_id.dispute = @ + 1],
                                   new, email.email_id)}
                   : m \in NearestRows({r \in db.dispute_embeddings :
                                            r.supplier_id = email.supplier_id},
                                       q, ENSURE_LIMIT)}

-----------------------------------------------------------------------------
(* store_dispute_document *)

\* the tables of a store record, without the serial counters
Tables(db) ==
    [canonical_disputes |-> db.canonical_disputes,
     dispute_emails     |-> db.dispute_emails,
     dispute_documents  |-> db.dispute_documents,
     dispute_embeddings |-> db.dispute_embeddings,
     suppliers          |-> db.suppliers,
     emails             |-> db.emails]

\* variant: the rows are stored under supplier 1, whichever supplier the
\* lookup was made for
PersistDocumentFirstSupplier(db, dispute_id, supplier_id, text, q) ==
    IF _document_exists(db, dispute_id, text) THEN db
    ELSE [db EXCEPT
            !.dispute_documents = @ \cup
                {[id |-> db.next_id.document, dispute_id |-> dispute_id,
                  supplier_id |-> 1, document_text |-> text]},
            !.dispute_embeddings = @ \cup
                {[id |-> db.next_id.embedding, dispute_id |-> dispute_id,
                  supplier_id |-> 1, embedding |-> q,
                  model_name |-> MODEL_NAME]},
            !.next_id.document = @ + 1,
            !.next_id.embedding = @ + 1]

\* INSERT INTO dispute_documents / dispute_embeddings when the text is new
\* under the dispute
PersistDocument(db, dispute_id, supplier_id, text, q) ==
    IF _document_exists(db, dispute_id, text) THEN db
    ELSE [db EXCEPT
            !.dispute_documents = @ \cup
                {[id |-> db.next_id.document, dispute_id |-> dispute_id,
                  supplier_id |-> supplier_id, document_text |-> text]},
            !.dispute_embeddings = @ \cup
                {[id |-> db.next_id.embedding, dispute_id |-> dispute_id,
                  supplier_id |-> supplier_id, embedding |-> q,
                  model_name |-> MODEL_NAME]},
            !.next_id.document = @ + 1,
            !.next_id.embedding = @ + 1]

\* what a call did, beside the store it leaves
Report(kind, supplier_id, embed_calls) ==
    [outcome |-> kind, supplier_id |-> supplier_id, embed_calls |-> embed_calls,
     dispute_id |-> 0, created |-> FALSE,
     match |-> <<>>, rows |-> <<>>, removed_documents |-> {},
     summary_before |-> NullStr, summary_after |-> NullStr]

\* lines 335-347: the exact-text fast path, which ends with conn.commit()
FastPath(db, dispute_id, email) ==
    {LET db2 == _update_dispute_summary(db1, dispute_id, email)
     IN  [db  |-> db2,
          committed |-> TRUE,
          did |-> [Report("fast", email.supplier_id, 0) EXCEPT
                     !.dispute_id = dispute_id,
                     !.summary_before = SummaryOf(db1, dispute_id),
                     !.summary_after = SummaryOf(db2, dispute_id)]]
        : db1 \in _link_email_to_dispute(db, dispute_id, email.email_id)}

\* lines 355-395: after canonicalization and sweep, to conn.commit()
Persist(ensured, swept, email, text, q) ==
    LET db1 == PersistDocument(swept.db, ensured.dispute_id, email.supplier_id, text, q)
        db2 == _update_dispute_summary(db1, ensured.dispute_id, email)
    IN  [db  |-> db2,
         committed |-> TRUE,
         did |-> [Report("stored", email.supplier_id, 1) EXCEPT
                    !.dispute_id = ensured.dispute_id,
                    !.created = ensured.created,
                    !.match = ensured.match,
                    !.rows = swept.rows,
                    !.removed_documents =
                        {r.id : r \in ensured.db.dispute_documents}
                            \ {r.id : r \in swept.db.dispute_documents},
                    !.summary_before = SummaryOf(db1, ensured.dispute_id),
                    !.summary_after = SummaryOf(db2, ensured.dispute_id)]]

\* a call that raises after asking for an embedding: the exception leaves
\* the with block before any conn.commit(); db_now is the store as the
\* transaction has written it so far
Raised(db_now, supplier_id) ==
    [db  |-> db_now,
     committed |-> FALSE,
     did |-> Report("error", supplier_id, 1)]

\* lines 322-395, the body of `with get_db_connection() as conn`: every
\* outcome of the transaction on store db; response_ok tells whether the
\* embedding provider's response holds a vector
Transaction(db, email_in, response_ok) ==
    LET text     == Render(email_in)
        similarity_threshold == SIMILARITY_THRESHOLD_100
        resolved == _resolve_supplier_id(db, email_in.supplier_id)
        supplier_id == resolved.supplier_id
        email    == [email_in EXCEPT !.supplier_id = supplier_id]
        db1      == IF email_in.supplier_id = NoSupplier
                    THEN [resolved.db EXCEPT !.emails[email.email_id].supplier_id = supplier_id]
                    ELSE resolved.db
        existing == _find_dispute_by_text(db1, supplier_id, text)
        embedded == embed_text(text, response_ok)
        q        == embedded.embedding
    IN  IF existing # {}
        THEN UNION {FastPath(db1, d, email) : d \in existing}
        ELSE IF embedded.raised
        THEN {Raised(db1, supplier_id)}
        ELSE UNION {IF ensured.raised
                    THEN {Raised(ensured.db, supplier_id)}
                    ELSE {IF swept.raised
                          THEN Raised(swept.db, supplier_id)
                          ELSE Persist(ensured, swept, email, text, q)
                             : swept \in _merge_similar_disputes(
                                   ensured.db, ensured.dispute_id, supplier_id, q,
                                   similarity_threshold)}
                       : ensured \in _ensure_dispute(db1, email, q, similarity_threshold)}

\* The connection (get_db_connection of db/db.py, not part of the sources):
\* commit is the only durability boundary, and a transaction left without
\* commit is aborted.  The serial numbers it drew only name rows, and the
\* rows are gone with it.
Rollback(db_before, db_now) == db_before

\* the store a call leaves when the with block is left
Exit(db_before, result) ==
    IF result.committed THEN result
    ELSE [result EXCEPT !.db = Rollback(db_before, result.db)]

\* every outcome of store_dispute_document(email) on store db
store_dispute_document(db, email_in, response_ok) ==
    {Exit(db, result) : result \in Transaction(db, email_in, response_ok)}

-----------------------------------------------------------------------------
(* The state machine *)

NoCall ==
    [email_id |-> 0, supplier_in |-> NoSupplier, provider_failed |-> FALSE]
        @@ Report("none", NoSupplier, 0)

\* the emails table after the ingestion of the first n messages of an inbox
Inbox(mailbox, n) == [e \in 1..n |-> mailbox[e]]

\* no call of classify_pending_emails is running
Idle ==
    [pc |-> "idle", limit |-> 0, rows |-> <<>>, i |-> 0, written |-> {},
     returned |-> -1]

\* the columns label and processed of the rows ingestion inserted: label NULL,
\* processed FALSE
Unclassified(inbox) == [e \in DOMAIN inbox |-> [label |-> "none", processed |-> FALSE]]

\* the rows of emails the classifier's transaction has updated and not yet
\* committed: it holds their row locks
Locked == {w.email_id : w \in classifier.written}

\* whether the UPDATE emails of store_dispute_document (lines 325-330), run
\* in the engine's own connection, has to wait for a row lock
MustWait(e) == emails[e].supplier_id = NoSupplier /\ e \in Locked

\* what fetch_messages_batch may return: the first messages of a Gmail inbox
Batches ==
    {SubSeq(GmailMailbox, 1, n) : n \in 1..NumEmails}
       \cup {SubSeq(GmailLongMailbox, 1, n) : n \in 1..Len(GmailLongMailbox)}
       \cup {SubSeq(GmailScenarioMailbox, 1, n) : n \in 1..Len(GmailScenarioMailbox)}

\* a Gmail id names one message: the messages of the batch that are stored
\* already are the ones the rows were parsed from
SameAccount(raw_messages) ==
    \A i \in 1..Len(raw_messages) :
        raw_messages[i].id \in DOMAIN emails
          => LET row    == emails[raw_messages[i].id]
                 parsed == parse_gmail_message(raw_messages[i])
             IN  /\ row.sender = parsed.sender
                 /\ row.subject = parsed.subject
                 /\ row.body = parsed.body
                 /\ row.received_at = parsed.received_at

\* the store before the first ingestion: one supplier, no email, no dispute
Init ==
    /\ canonical_disputes = EmptyStore.canonical_disputes
    /\ dispute_emails = EmptyStore.dispute_emails
    /\ dispute_documents = EmptyStore.dispute_documents
    /\ dispute_embeddings = EmptyStore.dispute_embeddings
    /\ suppliers = EmptyStore.suppliers
    /\ emails = EmptyStore.emails
    /\ next_id = EmptyStore.next_id
    /\ last = NoCall
    /\ classified = Unclassified(emails)
    /\ classifier = Idle

\* IngestionAgent.ingest of a batch that holds a new message: the new
\* messages become rows of emails, unprocessed and without label, and the
\* transaction commits
Ingest(raw_messages) ==
    /\ classifier.pc = "idle"
    /\ \E i \in 1..Len(raw_messages) : raw_messages[i].id \notin DOMAIN emails
    /\ SameAccount(raw_messages)
    /\ \E db \in ingest(DB, raw_messages) :
          /\ emails' = db.emails
          /\ classified' = [e \in DOMAIN db.emails |->
                               IF e \in DOMAIN emails THEN classified[e]
                               ELSE [label |-> "none", processed |-> FALSE]]
    /\ last' = NoCall
    /\ UNCHANGED <<canonical_disputes, dispute_emails, dispute_documents,
                   dispute_embeddings, suppliers, next_id, classifier>>

\* what one call of the engine for email e does to the tables
StoreCall(e, with_supplier, response_ok) ==
    LET email_in == [emails[e] EXCEPT
                        !.supplier_id = IF with_supplier THEN @ ELSE NoSupplier]
    IN  \E r \in store_dispute_document(DB, email_in, response_ok) :
          /\ canonical_disputes' = r.db.canonical_disputes
          /\ dispute_emails' = r.db.dispute_emails
          /\ dispute_documents' = r.db.dispute_documents
          /\ dispute_embeddings' = r.db.dispute_embeddings
          /\ suppliers' = r.db.suppliers
          /\ emails' = r.db.emails
          /\ next_id' = r.db.next_id
          /\ last' = [email_id |-> e, supplier_in |-> email_in.supplier_id,
                      provider_failed |-> r.did.embed_calls > 0 /\ ~response_ok] @@ r.did

\* one call of the engine: for email e, handed over with the supplier_id of its
\* emails row (the classifier, the tests) or without one (the live pipeline)
StoreDisputeDocument(e, with_supplier, response_ok) ==
    /\ StoreCall(e, with_supplier, response_ok)
    /\ UNCHANGED <<classified, classifier>>

Next ==
    \/ \E raw_messages \in Batches : Ingest(raw_messages)
    \/ \E e \in DOMAIN emails, with_supplier \in BOOLEAN, response_ok \in BOOLEAN :
          StoreDisputeDocument(e, with_supplier, response_ok)

Spec == Init /\ [][Next]_vars

-----------------------------------------------------------------------------
(* One call of classify_pending_emails, with the default limit, after the
   ingestion of eight messages of the inbox GmailSweepMailbox: the SELECT
   returns every email, in any order; an email the classifier labels a
   dispute is handed to the engine with its supplier_id *)

\* limit: int = 10
DEFAULT_LIMIT == 10

\* the messages fetch_messages_batch returned: the inbox without the second
\* of its two near-duplicates
\* the engine called in any order, any number of times, with or without
\* supplier and with or without a vector from the provider, on the emails of
\* the first four messages of the inbox or of the merge inbox
InitMerge ==
    /\ canonical_disputes = {}
    /\ dispute_emails = {}
    /\ dispute_documents = {}
    /\ dispute_embeddings = {}
    /\ suppliers = {Acme}
    /\ emails \in {Ingested(SubSeq(GmailMailbox, 1, 4)), Ingested(GmailMergeMailbox)}
    /\ next_id = [dispute |-> 1, document |-> 1, embedding |-> 1, supplier |-> 2]
    /\ last = NoCall
    /\ classified = Unclassified(emails)
    /\ classifier = Idle

NextMerge ==
    \E e \in DOMAIN emails, with_supplier \in BOOLEAN, response_ok \in BOOLEAN :
        StoreDisputeDocument(e, with_supplier, response_ok)

MergeSpec == InitMerge /\ [][NextMerge]_vars

SweepBatch == SubSeq(GmailSweepMailbox, 1, 7) \o SubSeq(GmailSweepMailbox, 9, 9)

InitSweep ==
    /\ canonical_disputes = {}
    /\ dispute_emails = {}
    /\ dispute_documents = {}
    /\ dispute_embeddings = {}
    /\ suppliers = {Acme}
    /\ emails = Ingested(SweepBatch)
    /\ next_id = [dispute |-> 1, document |-> 1, embedding |-> 1, supplier |-> 2]
    /\ last = NoCall
    /\ classified = Unclassified(emails)
    /\ classifier = Idle

\* the rows the SELECT of lines 31-38 returns: the unprocessed emails, all of
\* them when the limit allows
Pending == {e \in DOMAIN emails : ~classified[e].processed}

\* lines 46-55 for a row labelled a dispute: _store_result updates the row in
\* the classifier's transaction and store_dispute_document is called and
\* returns.  The rows come in the order the store returns them: the next row
\* is any row the loop has not had yet (a row labelled otherwise changes
\* nothing another connection sees before the commit).  The call returns
\* when the email has its supplier_id, as every ingested email has: without
\* it the engine waits for the row the classifier has written (StoreWaits)
SweepStore(e) ==
    /\ classifier.pc \in {"idle", "classify"}
    /\ Cardinality(Pending) <= DEFAULT_LIMIT
    /\ e \in Pending \ Locked
    /\ emails[e].supplier_id # NoSupplier
    /\ StoreCall(e, TRUE, TRUE)
    /\ last'.outcome # "error"
    /\ classifier' =
          [classifier EXCEPT
             !.pc = "classify",
             !.limit = DEFAULT_LIMIT,
             !.written = @ \cup {[email_id |-> e, label |-> "dispute"]}]
    /\ UNCHANGED classified

\* lines 46-55 when store_dispute_document raises (the provider returns no
\* vector, or a statement of the engine fails): nothing catches the
\* exception, so it leaves classify_pending_emails before the commit of line
\* 57; what the engine committed for the earlier rows stays, the labels stay
\* as they were
SweepRaise(e) ==
    /\ classifier.pc \in {"idle", "classify"}
    /\ Cardinality(Pending) <= DEFAULT_LIMIT
    /\ e \in Pending \ Locked
    /\ emails[e].supplier_id # NoSupplier
    /\ \E response_ok \in BOOLEAN : StoreCall(e, TRUE, response_ok)
    /\ last'.outcome = "error"
    /\ classifier' = [Idle EXCEPT !.pc = "raised", !.limit = DEFAULT_LIMIT]
    /\ UNCHANGED classified

\* lines 57-59 after the last row: the rows not handed to the engine were
\* labelled otherwise; the transaction commits and the call returns len(rows)
SweepCommit ==
    /\ classifier.pc \in {"idle", "classify"}
    /\ Cardinality(Pending) <= DEFAULT_LIMIT
    /\ classified' =
          [e \in DOMAIN classified |->
              IF e \in Locked THEN [label |-> "dispute", processed |-> TRUE]
              ELSE IF e \in Pending THEN [label |-> "other", processed |-> TRUE]
              ELSE classified[e]]
    /\ classifier' = [Idle EXCEPT !.pc = "returned", !.limit = DEFAULT_LIMIT,
                                  !.returned = Cardinality(Pending)]
    /\ UNCHANGED <<canonical_disputes, dispute_emails, dispute_documents,
                   dispute_embeddings, suppliers, emails, next_id, last>>

NextSweep ==
    \/ \E e \in DOMAIN emails : SweepStore(e)
    \/ \E e \in DOMAIN emails : SweepRaise(e)
    \/ SweepCommit

SweepSpec == InitSweep /\ [][NextSweep]_vars

-----------------------------------------------------------------------------
(* The inbox SweepMailbox with two workers that call the engine: the emails
   are handed over in the order of arrival, each with its supplier_id (an
   email may be left out), and two calls for different emails may run in
   transactions that overlap from their first to their last statement *)

InitWorkers ==
    /\ canonical_disputes = {}
    /\ dispute_emails = {}
    /\ dispute_documents = {}
    /\ dispute_embeddings = {}
    /\ suppliers = {Acme}
    /\ emails = Inbox(SweepMailbox, Len(SweepMailbox))
    /\ next_id = [dispute |-> 1, document |-> 1, embedding |-> 1, supplier |-> 2]
    /\ last = NoCall
    /\ classified = Unclassified(emails)
    /\ classifier = Idle

\* a call of one worker while the other is idle
WorkerStore(e) ==
    /\ e > last.email_id
    /\ StoreDisputeDocument(e, TRUE, TRUE)

\* a call that only inserted: it created its dispute and its sweep merged nothing
InsertOnly(did) ==
    /\ did.outcome = "stored"
    /\ did.created
    /\ \A i \in DOMAIN did.rows : ~MergeCandidate(did.rows[i], SIMILARITY_THRESHOLD_100)

\* Both transactions read the committed store: neither sees the rows the
\* other has inserted and not yet committed.  The serial columns are shared
\* (sequences are not transactional).  Both commit.
ConcurrentStores(e1, e2) ==
    /\ e1 > last.email_id
    /\ e2 > e1
    /\ emails[e1].supplier_id # NoSupplier
    /\ emails[e2].supplier_id # NoSupplier
    /\ \E r1 \in store_dispute_document(DB, emails[e1], TRUE) :
         \E r2 \in store_dispute_document([DB EXCEPT !.next_id = r1.db.next_id],
                                           emails[e2], TRUE) :
           /\ InsertOnly(r1.did)
           /\ InsertOnly(r2.did)
           /\ canonical_disputes' = r1.db.canonical_disputes \cup r2.db.canonical_disputes
           /\ dispute_emails' = r1.db.dispute_emails \cup r2.db.dispute_emails
           /\ dispute_documents' = r1.db.dispute_documents \cup r2.db.dispute_documents
           /\ dispute_embeddings' = r1.db.dispute_embeddings \cup r2.db.dispute_embeddings
           /\ next_id' = r2.db.next_id
           /\ last' = [email_id |-> e2, supplier_in |-> emails[e2].supplier_id,
                       provider_failed |-> FALSE] @@ r2.did
           /\ UNCHANGED <<suppliers, emails, classified, classifier>>

NextRace ==
    \/ \E e \in DOMAIN emails : WorkerStore(e)
    \/ \E e1, e2 \in DOMAIN emails : ConcurrentStores(e1, e2)

RaceSpec == InitWorkers /\ [][NextRace]_vars

-----------------------------------------------------------------------------
(* Two workers again: one call reuses a dispute, or links to it on the fast
   path, while the sweep of the other merges disputes *)

\* a call that committed and whose sweep, if it ran, merged nothing
MergesNothing(did) ==
    /\ did.outcome \in {"fast", "stored"}
    /\ \A i \in DOMAIN did.rows : ~MergeCandidate(did.rows[i], SIMILARITY_THRESHOLD_100)

\* the store after both transactions committed: the second one's store, with
\* the rows the first inserted and the row of the first one's dispute as the
\* first left it, unless the second deleted it
BothCommitted(db, r1, r2) ==
    LET d    == r1.did.dispute_id
        kept == {c.dispute_id : c \in r2.db.canonical_disputes}
        old  == {c.dispute_id : c \in db.canonical_disputes}
    IN  [r2.db EXCEPT
           !.canonical_disputes =
               {c \in @ : c.dispute_id # d}
                  \cup {c \in r1.db.canonical_disputes :
                           c.dispute_id = d /\ (d \in kept \/ d \notin old)},
           !.dispute_emails = @ \cup (r1.db.dispute_emails \ db.dispute_emails),
           !.dispute_documents = @ \cup (r1.db.dispute_documents \ db.dispute_documents),
           !.dispute_embeddings = @ \cup (r1.db.dispute_embeddings \ db.dispute_embeddings)]

\* the stores the two transactions may leave.  Both read the committed store.
\* When the second deletes the dispute the first wrote rows for, a schema with
\* foreign keys makes one of the two fail and roll back; one without lets
\* both commit.  The schema is not part of the sources: every outcome is kept.
OverlapOutcomes(db, r1, r2) ==
    LET d == r1.did.dispute_id
    IN  {BothCommitted(db, r1, r2)}
           \cup (IF /\ \E c \in db.canonical_disputes : c.dispute_id = d
                    /\ \A c \in r2.db.canonical_disputes : c.dispute_id # d
                 THEN {[r1.db EXCEPT !.next_id = r2.db.next_id], r2.db}
                 ELSE {})

OverlappingStores(e1, e2) ==
    /\ e1 > last.email_id
    /\ e2 > last.email_id
    /\ e1 # e2
    /\ emails[e1].supplier_id # NoSupplier
    /\ emails[e2].supplier_id # NoSupplier
    /\ \E r1 \in store_dispute_document(DB, emails[e1], TRUE) :
         \E r2 \in store_dispute_document([DB EXCEPT !.next_id = r1.db.next_id],
                                           emails[e2], TRUE) :
           /\ MergesNothing(r1.did)
           /\ r2.did.outcome = "stored"
           /\ r2.did.dispute_id # r1.did.dispute_id
           /\ \E db \in OverlapOutcomes(DB, r1, r2) :
                 /\ canonical_disputes' = db.canonical_disputes
                 /\ dispute_emails' = db.dispute_emails
                 /\ dispute_documents' = db.dispute_documents
                 /\ dispute_embeddings' = db.dispute_embeddings
                 /\ next_id' = db.next_id
           /\ last' = [email_id |-> IF e1 > e2 THEN e1 ELSE e2,
                       supplier_in |-> emails[e2].supplier_id,
                       provider_failed |-> FALSE] @@ r2.did
           /\ UNCHANGED <<suppliers, emails, classified, classifier>>

NextOverlap ==
    \/ \E e \in DOMAIN emails : WorkerStore(e)
    \/ \E e1, e2 \in DOMAIN emails : OverlappingStores(e1, e2)

OverlapSpec == InitWorkers /\ [][NextOverlap]_vars

-----------------------------------------------------------------------------
(* classify_pending_emails: one call, in its own transaction, which hands
   every email labelled a dispute to store_dispute_document; the classifier
   and the embedding provider answer *)

\* the emails a call may fetch: SELECT ... WHERE processed = FALSE LIMIT limit,
\* in any order
Fetched(limit) ==
    LET pending == {e \in DOMAIN emails : ~classified[e].processed}
        n       == IF limit <= Cardinality(pending) THEN limit ELSE Cardinality(pending)
    IN  {rows \in [1..n -> pending] :
            \A a, b \in 1..n : rows[a] = rows[b] => a = b}

InitClassify ==
    /\ canonical_disputes = {}
    /\ dispute_emails = {}
    /\ dispute_documents = {}
    /\ dispute_embeddings = {}
    /\ suppliers = {Acme}
    /\ emails = Inbox(Mailbox, NumEmails)
    /\ next_id = [dispute |-> 1, document |-> 1, embedding |-> 1, supplier |-> 2]
    /\ last = NoCall
    /\ classified \in [DOMAIN emails -> {[label |-> "none", processed |-> FALSE],
                                         [label |-> "other", processed |-> TRUE]}]
    /\ classifier = Idle

\* lines 29-44: the SELECT; no row, return 0
FetchPending(limit) ==
    /\ classifier.pc = "idle"
    /\ \E rows \in Fetched(limit) :
          classifier' = IF rows = <<>>
                        THEN [Idle EXCEPT !.pc = "returned", !.limit = limit,
                                          !.returned = 0]
                        ELSE [Idle EXCEPT !.pc = "classify", !.limit = limit,
                                          !.rows = rows, !.i = 1]
    /\ UNCHANGED <<canonical_disputes, dispute_emails, dispute_documents,
                   dispute_embeddings, suppliers, emails, next_id, last, classified>>

\* lines 46-54: _classify_text answers label; _store_result updates the row
\* in the classifier's transaction; a dispute is handed to the engine
ClassifyEmail(label) ==
    /\ classifier.pc = "classify"
    /\ classifier.i <= Len(classifier.rows)
    /\ classifier' =
          [classifier EXCEPT
             !.written = {w \in @ : w.email_id # classifier.rows[classifier.i]}
                            \cup {[email_id |-> classifier.rows[classifier.i],
                                   label |-> label]},
             !.pc = IF label = "dispute" THEN "store" ELSE "classify",
             !.i = IF label = "dispute" THEN @ ELSE @ + 1]
    /\ UNCHANGED <<canonical_disputes, dispute_emails, dispute_documents,
                   dispute_embeddings, suppliers, emails, next_id, last, classified>>

\* line 55: store_dispute_document returns, its transaction committed, and
\* the loop goes on; or it raises, and the exception, which nothing catches,
\* leaves classify_pending_emails before the commit of line 57: the labels
\* the call has written are not committed
StoreReturns ==
    /\ classifier.pc = "store"
    /\ ~MustWait(classifier.rows[classifier.i])
    /\ StoreCall(classifier.rows[classifier.i], TRUE, TRUE)
    /\ classifier' = IF last'.outcome = "error"
                     THEN [Idle EXCEPT !.pc = "raised", !.limit = classifier.limit]
                     ELSE [classifier EXCEPT !.pc = "classify", !.i = @ + 1]
    /\ UNCHANGED classified

\* line 55: store_dispute_document waits for the row lock, which the
\* classifier's transaction holds until it commits; the classifier waits for
\* store_dispute_document to return
StoreWaits ==
    /\ classifier.pc = "store"
    /\ MustWait(classifier.rows[classifier.i])
    /\ classifier' = [classifier EXCEPT !.pc = "waiting"]
    /\ UNCHANGED <<canonical_disputes, dispute_emails, dispute_documents,
                   dispute_embeddings, suppliers, emails, next_id, last, classified>>

\* lines 57-59: commit and return len(rows)
CommitAndReturn ==
    /\ classifier.pc = "classify"
    /\ classifier.i > Len(classifier.rows)
    /\ classified' =
          [e \in DOMAIN classified |->
              IF e \in Locked
              THEN [label |-> (CHOOSE w \in classifier.written : w.email_id = e).label,
                    processed |-> TRUE]
              ELSE classified[e]]
    /\ classifier' = [classifier EXCEPT !.pc = "returned", !.written = {},
                                        !.returned = Len(classifier.rows)]
    /\ UNCHANGED <<canonical_disputes, dispute_emails, dispute_documents,
                   dispute_embeddings, suppliers, emails, next_id, last>>

NextClassify ==
    \/ \E limit \in 1..MaxLimit : FetchPending(limit)
    \/ \E label \in {"dispute", "other"} : ClassifyEmail(label)
    \/ StoreReturns
    \/ StoreWaits
    \/ CommitAndReturn

\* the call runs on as long as a statement of it can run
ClassifySpec == InitClassify /\ [][NextClassify]_vars /\ WF_vars(NextClassify)

-----------------------------------------------------------------------------
(* run_live_pipeline.main: ingestion, classification of the unprocessed
   emails, then every email labelled a dispute is handed to the engine again,
   this time without supplier_id; the program may be run again *)

\* int(os.getenv("PIPELINE_DAYS", "3"))
PIPELINE_DAYS == 3

\* the days the inboxes and the clock range over
Instants == 1..9

\* the day a received_at stands for
When(received_at) == CHOOSE n \in Instants : <<ToString(n)>> = received_at

\* ORDER BY received_at DESC LIMIT k: every order the store may return, rows
\* of the same instant in either order
RECURSIVE LatestFirst(_, _)
LatestFirst(ids, k) ==
    IF k = 0 \/ ids = {} THEN {<<>>}
    ELSE LET best == {e \in ids : \A o \in ids :
                          When(emails[e].received_at) >= When(emails[o].received_at)}
         IN  UNION {{<<e>> \o t : t \in LatestFirst(ids \ {e}, k - 1)} : e \in best}

\* _fetch_recent_disputes: the processed emails labelled a dispute and
\* received within the last days days before now, the value of NOW(); a row
\* without received_at fails the comparison
_fetch_recent_disputes(days, limit, now) ==
    LatestFirst({e \in DOMAIN emails :
                    /\ classified[e].processed
                    /\ classified[e].label = "dispute"
                    /\ emails[e].received_at # NullStr
                    /\ When(emails[e].received_at) >= now - days},
                limit)

\* lines 74-76 of main, after classify_pending_emails has returned
FetchRecentDisputes ==
    /\ classifier.pc = "returned"
    /\ \E days \in 1..PIPELINE_DAYS, now \in Instants :
          \E rows \in _fetch_recent_disputes(days, classifier.limit, now) :
             classifier' = [classifier EXCEPT !.pc = "pipeline", !.rows = rows, !.i = 1]
    /\ UNCHANGED <<canonical_disputes, dispute_emails, dispute_documents,
                   dispute_embeddings, suppliers, emails, next_id, last, classified>>

\* lines 78-79: store_dispute_document(row); the row has no supplier_id.
\* When the call raises, the exception, which nothing catches, leaves main:
\* the rows after it are not handed to the engine
PipelineStore ==
    /\ classifier.pc = "pipeline"
    /\ classifier.i <= Len(classifier.rows)
    /\ StoreCall(classifier.rows[classifier.i], FALSE, TRUE)
    /\ classifier' = IF last'.outcome = "error"
                     THEN [Idle EXCEPT !.pc = "raised", !.limit = classifier.limit]
                     ELSE [classifier EXCEPT !.i = @ + 1]
    /\ UNCHANGED classified

\* line 80 and the return of main
PipelineDone ==
    /\ classifier.pc = "pipeline"
    /\ classifier.i > Len(classifier.rows)
    /\ classifier' = Idle
    /\ UNCHANGED <<canonical_disputes, dispute_emails, dispute_documents,
                   dispute_embeddings, suppliers, emails, next_id, last, classified>>

NextPipeline ==
    \/ \E raw_messages \in Batches : Ingest(raw_messages)
    \/ \E limit \in 1..MaxLimit : FetchPending(limit)
    \/ \E label \in {"dispute", "other"} : ClassifyEmail(label)
    \/ StoreReturns
    \/ StoreWaits
    \/ CommitAndReturn
    \/ FetchRecentDisputes
    \/ PipelineStore
    \/ PipelineDone

PipelineSpec == Init /\ [][NextPipeline]_vars

-----------------------------------------------------------------------------
(* Vocabulary of the properties *)

\* the call committed: it returned from the fast path or from the normal path
Committed(call) == call.outcome \in {"fast", "stored"}

\* the disputes a link table gives to an email
LinkIn(links, e) == {l.dispute_id : l \in {x \in links : x.email_id = e}}

LinkOf(e) == LinkIn(dispute_emails, e)

Unlinked(e) == LinkOf(e) = {}

Ids == {c.dispute_id : c \in canonical_disputes}

\* the four tables of the dispute aggregate
DisputeTables ==
    <<canonical_disputes, dispute_emails, dispute_documents, dispute_embeddings>>

\* the rows of a table under a dispute
RowsIn(table, d) == {r \in table : r.dispute_id = d}

\* the embeddings of a supplier and the best similarity of q to them (-1: none)
Cand(s) == {r \in dispute_embeddings : r.supplier_id = s}

MaxSim(s, q) ==
    IF Cand(s) = {} THEN -1
    ELSE CHOOSE m \in {Similarity(r.embedding, q) : r \in Cand(s)} :
            \A r \in Cand(s) : Similarity(r.embedding, q) <= m

\* the vector of an email's rendered text
Q(e) == ProviderVector(Render(emails[e]))

\* length of a summary, NULL counting as empty
SLen(summary) == IF summary = NullStr THEN 0 ELSE Len(summary)

\* no text twice under dispute d in a documents table
TextsDistinct(documents, d) ==
    \A a, b \in RowsIn(documents, d) : a.document_text = b.document_text => a = b

-----------------------------------------------------------------------------
(* Properties of store_dispute_document *)

\* C1 (idempotency): when a committed call for an email is followed by another
\* call for the same email, the second call leaves the four dispute tables as
\* they were (no dispute, document or embedding row added, no row changed) and
\* the email has exactly one link.
C1_SecondCallIsNoOp ==
    [][(Committed(last) /\ last'.email_id = last.email_id)
          => /\ DisputeTables' = DisputeTables
             /\ Cardinality({l \in dispute_emails' : l.email_id = last.email_id}) = 1]_vars

\* C2 (link uniqueness): in every reachable state each email_id appears in at
\* most one link, whatever calls, fast-path hits and merges came before.
C2_LinkUnique ==
    \A a, b \in dispute_emails : a.email_id = b.email_id => a = b

\* C3 (exact-text dedup): when two committed calls follow each other for
\* emails of different email_id, the same supplier and the same rendered text,
\* the second call asks for no embedding and both emails are linked to the
\* same dispute.
C3_ExactTextDedup ==
    [][(/\ Committed(last) /\ Committed(last')
        /\ last'.email_id # last.email_id
        /\ Render(emails[last'.email_id]) = Render(emails[last.email_id])
        /\ last'.supplier_id = last.supplier_id)
          => /\ last'.embed_calls = 0
             /\ LinkIn(dispute_emails', last.email_id) # {}
             /\ LinkIn(dispute_emails', last'.email_id)
                    = LinkIn(dispute_emails', last.email_id)]_vars

\* C4 (threshold boundary): a call on the normal path for an email without a
\* link fetches at most the one nearest embedding of the supplier; when the
\* best similarity is at or above the threshold the email is linked to the
\* dispute of an embedding at that best similarity and no dispute is created;
\* when it is below, or the supplier has no embedding, a dispute is created
\* and the email is linked to it.
C4_ThresholdBoundary ==
    [][\A e \in DOMAIN emails :
         (last'.email_id = e /\ Unlinked(e) /\ last'.outcome = "stored")
           => /\ Len(last'.match) <= 1
              /\ IF MaxSim(last'.supplier_id, Q(e)) >= SIMILARITY_THRESHOLD_100
                 THEN /\ next_id'.dispute = next_id.dispute
                      /\ ~last'.created
                      /\ LinkIn(dispute_emails', e) = {last'.dispute_id}
                      /\ \E r \in Cand(last'.supplier_id) :
                            /\ r.dispute_id = last'.dispute_id
                            /\ Similarity(r.embedding, Q(e))
                                  = MaxSim(last'.supplier_id, Q(e))
                 ELSE /\ next_id'.dispute = next_id.dispute + 1
                      /\ last'.created
                      /\ last'.dispute_id = next_id.dispute
                      /\ next_id.dispute \in {c.dispute_id : c \in canonical_disputes'}
                      /\ LinkIn(dispute_emails', e) = {next_id.dispute}]_vars

\* the nearest embedding was exactly at the threshold and its dispute was reused
C4_Witness ==
    /\ last.outcome = "stored"
    /\ last.match # <<>>
    /\ last.match[1].similarity = SIMILARITY_THRESHOLD_100
    /\ ~last.created
    /\ last.dispute_id \in LinkOf(last.email_id)

\* C5 (merge closure): for every two distinct existing disputes of a reachable
\* state, whatever documents they hold, merging one into the other leaves no
\* row of the source in canonical_disputes, leaves the target in place and
\* leaves no text twice under the target; and after a call whose sweep merged,
\* every absorbed dispute is gone, the target exists and holds no text twice.
MergeClosed(db, source, target) ==
    \A merged \in _merge_duplicate_dispute(db, source, target) :
        /\ \A c \in merged.canonical_disputes : c.dispute_id # source
        /\ \E c \in merged.canonical_disputes : c.dispute_id = target
        /\ TextsDistinct(merged.dispute_documents, target)

C5_MergeClosure ==
    /\ \A source, target \in Ids : source # target => MergeClosed(DB, source, target)
    /\ \A i \in DOMAIN last.rows :
          MergeCandidate(last.rows[i], SIMILARITY_THRESHOLD_100)
            => /\ last.rows[i].dispute_id \notin Ids
               /\ last.dispute_id \in Ids
               /\ TextsDistinct(dispute_documents, last.dispute_id)

\* a sweep merged a dispute that held a text of the target: the document of
\* the source was removed, the target keeps its own
C5_Witness ==
    /\ last.removed_documents # {}
    /\ \E i \in DOMAIN last.rows :
          /\ MergeCandidate(last.rows[i], SIMILARITY_THRESHOLD_100)
          /\ last.rows[i].dispute_id \notin Ids
    /\ RowsIn(dispute_documents, last.dispute_id) # {}

\* C6 (ownership): in every reachable state each link, document and embedding
\* row carries a dispute_id that exactly one row of canonical_disputes has.
Owned(row) ==
    Cardinality({c \in canonical_disputes : c.dispute_id = row.dispute_id}) = 1

C6_Ownership ==
    /\ \A l \in dispute_emails : Owned(l)
    /\ \A r \in dispute_documents : Owned(r)
    /\ \A r \in dispute_embeddings : Owned(r)

\* the last call absorbed a dispute, whose links and embeddings the target
\* now holds
C6_Witness ==
    /\ \E i \in DOMAIN last.rows :
          MergeCandidate(last.rows[i], SIMILARITY_THRESHOLD_100)
    /\ Cardinality(RowsIn(dispute_emails, last.dispute_id)) > 1
    /\ Cardinality(RowsIn(dispute_embeddings, last.dispute_id)) > 1

\* C7 (document uniqueness): in every reachable state no two documents of the
\* same dispute have the same document_text.
C7_DocumentUnique ==
    \A a, b \in dispute_documents :
        (a.dispute_id = b.dispute_id /\ a.document_text = b.document_text) => a = b

\* a call on the normal path for an email whose text its dispute already
\* held: nothing was inserted
C7_Witness ==
    /\ last.outcome = "stored"
    /\ \E r \in dispute_documents :
          /\ r.dispute_id = last.dispute_id
          /\ r.document_text = Render(emails[last.email_id])
          /\ r.supplier_id # last.supplier_id

\* C8 (no partial writes): a call during which the embedding provider returned
\* no usable vector ends in an error and leaves every table as it was before
\* the call: the dispute tables, the suppliers (no sentinel row committed) and
\* the emails (no supplier_id committed).
C8_NoPartialWrites ==
    [][last'.provider_failed
          => /\ last'.outcome = "error"
             /\ Tables(DB)' = Tables(DB)]_vars

\* the provider failed on an email handed over without supplier, before any
\* call had created the sentinel: neither the sentinel nor the email's
\* supplier_id is in the store
C8_Witness ==
    /\ last.provider_failed
    /\ last.supplier_in = NoSupplier
    /\ last.supplier_id # NoSupplier
    /\ \A r \in suppliers : r.name # UNKNOWN_SUPPLIER /\ r.supplier_id # last.supplier_id
    /\ emails[last.email_id].supplier_id = NoSupplier

\* C9 (similar versus dissimilar): a call on the normal path for an email
\* without a link, whose best similarity to the supplier's embeddings is at or
\* above the threshold, creates no dispute and adds exactly one document and
\* one embedding, both under the reused dispute; when the best similarity is
\* below the threshold (or there is no embedding) it creates exactly one
\* dispute, which owns the email's link, one document and one embedding.
C9_SimilarVersusDissimilar ==
    [][\A e \in DOMAIN emails :
         (last'.email_id = e /\ Unlinked(e) /\ last'.outcome = "stored")
           => IF MaxSim(last'.supplier_id, Q(e)) >= SIMILARITY_THRESHOLD_100
              THEN /\ next_id'.dispute = next_id.dispute
                   /\ next_id'.document = next_id.document + 1
                   /\ next_id'.embedding = next_id.embedding + 1
                   /\ (\E r \in dispute_documents' :
                          r.id = next_id.document /\ r.dispute_id = last'.dispute_id)
                   /\ (\E r \in dispute_embeddings' :
                          r.id = next_id.embedding /\ r.dispute_id = last'.dispute_id)
              ELSE /\ next_id'.dispute = next_id.dispute + 1
                   /\ {c.dispute_id : c \in canonical_disputes'}
                         = Ids \cup {last'.dispute_id}
                   /\ LinkIn(dispute_emails', e) = {last'.dispute_id}
                   /\ Cardinality(RowsIn(dispute_documents', last'.dispute_id)) = 1
                   /\ Cardinality(RowsIn(dispute_embeddings', last'.dispute_id)) = 1]_vars

\* C10 (summary growth): every update of a summary by _update_dispute_summary,
\* from the fast path or from the normal path, leaves a summary at least as
\* long as the one it found, and never an empty one in place of a text.
C10_SummaryGrowth ==
    /\ SLen(last.summary_after) >= SLen(last.summary_before)
    /\ Truthy(last.summary_before) => Truthy(last.summary_after)

\* an update replaced a text by another one
C10_Witness ==
    /\ Committed(last)
    /\ Truthy(last.summary_before)
    /\ last.summary_after # last.summary_before

\* C11 (summary does not cycle): when an update replaced the text X of a
\* dispute's summary by another text, and the next call updates the summary
\* of the same dispute, starting from the text the first update left, the
\* summary does not become X again.
C11_SummaryDoesNotCycle ==
    [][(/\ Committed(last) /\ Committed(last')
        /\ last'.dispute_id = last.dispute_id
        /\ Truthy(last.summary_before)
        /\ last.summary_after # last.summary_before
        /\ last'.summary_before = last.summary_after)
          => last'.summary_after # last.summary_before]_vars

\* C12 (at most one embedding request per email): a call asks for no
\* embedding when the text is already stored for the resolved supplier and
\* for exactly one otherwise; and when a committed call that asked for the
\* embedding of an email is followed by another call for the same email, the
\* second call asks for none.
C12_OneEmbeddingPerEmail ==
    [][\A e \in DOMAIN emails :
         last'.email_id = e
           => /\ last'.embed_calls \in {0, 1}
              /\ last'.embed_calls = 0
                    <=> \E r \in dispute_documents :
                          /\ r.supplier_id = last'.supplier_id
                          /\ r.document_text = Render(emails[e])
              /\ (Committed(last) /\ last.email_id = e /\ last.embed_calls = 1)
                    => last'.embed_calls = 0]_vars

\* C13 (supplier resolution): a committed call for an email handed over with
\* a supplier_id uses that id and writes neither suppliers nor emails; a call
\* for an email handed over without one uses the sentinel supplier (the
\* existing row with the lowest id, or one row inserted when there is none)
\* and writes that id on the email's row.  In both cases the nearest-neighbour
\* and sweep rows come from embeddings of the resolved supplier, and every
\* dispute, document and embedding the call inserts carries its id.
Sentinels(rows) == {r \in rows : r.name = UNKNOWN_SUPPLIER}

FromSupplier(row, s) ==
    \E r \in Cand(s) : r.dispute_id = row.dispute_id

C13_SupplierResolution ==
    [][\A e \in DOMAIN emails :
         (last'.email_id = e /\ Committed(last'))
           => /\ IF last'.supplier_in # NoSupplier
                 THEN /\ last'.supplier_id = last'.supplier_in
                      /\ suppliers' = suppliers
                      /\ emails' = emails
                 ELSE /\ \E n \in Sentinels(suppliers') :
                            /\ n.supplier_id = last'.supplier_id
                            /\ \A o \in Sentinels(suppliers) :
                                   n.supplier_id <= o.supplier_id
                            /\ suppliers' = IF Sentinels(suppliers) = {}
                                            THEN suppliers \cup {n} ELSE suppliers
                      /\ emails' = [emails EXCEPT ![e].supplier_id = last'.supplier_id]
              /\ \A i \in DOMAIN last'.match : FromSupplier(last'.match[i], last'.supplier_id)
              /\ \A i \in DOMAIN last'.rows : FromSupplier(last'.rows[i], last'.supplier_id)
              /\ \A c \in canonical_disputes' :
                    c.dispute_id >= next_id.dispute => c.supplier_id = last'.supplier_id
              /\ \A r \in dispute_documents' :
                    r.id >= next_id.document => r.supplier_id = last'.supplier_id
              /\ \A r \in dispute_embeddings' :
                    r.id >= next_id.embedding => r.supplier_id = last'.supplier_id]_vars

\* a call without supplier_id stored a document under the sentinel and wrote
\* the sentinel's id on the email's row
C13_Witness ==
    /\ last.outcome = "stored"
    /\ last.supplier_in = NoSupplier
    /\ \E n \in Sentinels(suppliers) : n.supplier_id = last.supplier_id
    /\ emails[last.email_id].supplier_id = last.supplier_id
    /\ \E r \in dispute_documents :
          /\ r.id = next_id.document - 1
          /\ r.dispute_id = last.dispute_id
          /\ r.supplier_id = last.supplier_id

\* C14 (race reconciliation): when two disputes of a supplier own embeddings
\* at or above the threshold to each other (two workers created them side by
\* side), a call on the normal path for that supplier whose embedding is at or
\* above the threshold to an embedding of each of them leaves one dispute that
\* owns every link, every embedding and every text the two owned.
OwnsNear(d, s, q) ==
    \E r \in dispute_embeddings :
        /\ r.dispute_id = d
        /\ r.supplier_id = s
        /\ Similarity(r.embedding, q) >= SIMILARITY_THRESHOLD_100

NearDuplicates(a, b, s) ==
    \E r \in dispute_embeddings :
        r.dispute_id = a /\ r.supplier_id = s /\ OwnsNear(b, s, r.embedding)

SupplierOf(d) ==
    {c.supplier_id : c \in {x \in canonical_disputes : x.dispute_id = d}}

C14_RaceReconciled ==
    [][\A e \in DOMAIN emails : \A a, b \in Ids :
         (/\ last'.email_id = e
          /\ last'.outcome = "stored"
          /\ a # b
          /\ SupplierOf(a) = {last'.supplier_id}
          /\ SupplierOf(b) = {last'.supplier_id}
          /\ NearDuplicates(a, b, last'.supplier_id)
          /\ OwnsNear(a, last'.supplier_id, Q(e))
          /\ OwnsNear(b, last'.supplier_id, Q(e)))
           => \E c \in canonical_disputes' :
                /\ \A x \in canonical_disputes' :
                      x.dispute_id \in {a, b} => x.dispute_id = c.dispute_id
                /\ \A l \in dispute_emails :
                      l.dispute_id \in {a, b}
                        => [l EXCEPT !.dispute_id = c.dispute_id] \in dispute_emails'
                /\ \A r \in dispute_embeddings :
                      r.dispute_id \in {a, b}
                        => [r EXCEPT !.dispute_id = c.dispute_id] \in dispute_embeddings'
                /\ \A r \in dispute_documents :
                      r.dispute_id \in {a, b}
                        => \E t \in dispute_documents' :
                             /\ t.dispute_id = c.dispute_id
                             /\ t.document_text = r.document_text]_vars

\* C15 (sweep completeness): after a call on the normal path that resolved
\* dispute D for a supplier with at most 5 other disputes, no other dispute of
\* that supplier owns an embedding at or above the threshold to the email's
\* embedding.
OtherDisputes(disputes, d, s) ==
    {c.dispute_id : c \in {x \in disputes : x.supplier_id = s /\ x.dispute_id # d}}

C15_SweepComplete ==
    [][\A e \in DOMAIN emails :
         (/\ last'.email_id = e
          /\ last'.outcome = "stored"
          /\ classified' = classified
          /\ Cardinality(OtherDisputes(canonical_disputes, last'.dispute_id,
                                       last'.supplier_id)) <= MERGE_SWEEP_LIMIT)
           => \A d \in OtherDisputes(canonical_disputes', last'.dispute_id,
                                      last'.supplier_id) :
                \A r \in dispute_embeddings' :
                    r.dispute_id = d
                      => Similarity(r.embedding, Q(e)) < SIMILARITY_THRESHOLD_100]_vars

\* C16 (same-supplier merges only): every dispute a call's sweep merges into
\* the call's dispute has the supplier_id of that dispute.
C16_SameSupplierMerges ==
    [][\A i \in DOMAIN last'.rows :
         MergeCandidate(last'.rows[i], SIMILARITY_THRESHOLD_100)
           => \A source \in canonical_disputes : \A target \in canonical_disputes' :
                (/\ source.dispute_id = last'.rows[i].dispute_id
                 /\ target.dispute_id = last'.dispute_id)
                  => source.supplier_id = target.supplier_id]_vars

\* C17 (sweep threshold, no side effect): in a call on the normal path, a
\* dispute other than the call's own is gone after the call if and only if the
\* sweep fetched a row of it at or above the threshold; when every fetched row
\* is below the threshold (or none is fetched) every dispute, link, document
\* and embedding of before the call is still there, unchanged but for the
\* summary of the call's own dispute; and a sweep run again on the store the
\* call leaves, fetching no row at or above the threshold, changes nothing,
\* and neither does the sweep's loop run on rows of the other disputes that
\* are below the threshold or have no similarity value.
AllBelow(rows) ==
    \A i \in DOMAIN rows : rows[i].similarity < SIMILARITY_THRESHOLD_100

\* rows of the other disputes of a store that the loop has to skip: without
\* similarity value, or with one below the threshold
SkippedRow(db, dispute_id) ==
    UNION {{[dispute_id |-> c.dispute_id],
            [dispute_id |-> c.dispute_id, similarity |-> SIMILARITY_THRESHOLD_100 - 1]}
              : c \in {c \in db.canonical_disputes : c.dispute_id # dispute_id}}

\* result sets of at most MaxSkipped such rows
MaxSkipped == 2

SkippedRows(db, dispute_id) ==
    UNION {[1..n -> SkippedRow(db, dispute_id)] : n \in 0..MaxSkipped}

C17_SweepThreshold ==
    /\ [][\A e \in DOMAIN emails :
         (last'.email_id = e /\ last'.outcome = "stored")
           => /\ \A d \in Ids \ {last'.dispute_id} :
                    d \notin Ids'
                      <=> \E i \in DOMAIN last'.rows :
                            /\ last'.rows[i].dispute_id = d
                            /\ last'.rows[i].similarity >= SIMILARITY_THRESHOLD_100
              /\ AllBelow(last'.rows)
                    => /\ \A c \in canonical_disputes :
                             c.dispute_id # last'.dispute_id => c \in canonical_disputes'
                       /\ dispute_emails \subseteq dispute_emails'
                       /\ dispute_documents \subseteq dispute_documents'
                       /\ dispute_embeddings \subseteq dispute_embeddings']_vars
    /\ [](last.outcome = "stored"
            => /\ \A again \in _merge_similar_disputes(DB, last.dispute_id,
                                                       last.supplier_id,
                                                       Q(last.email_id),
                                                       SIMILARITY_THRESHOLD_100) :
                     AllBelow(again.rows) => again.db = DB /\ ~again.raised
               /\ \A rows \in SkippedRows(DB, last.dispute_id) :
                     MergeRows(DB, rows, last.dispute_id, SIMILARITY_THRESHOLD_100)
                        = {[db |-> DB, raised |-> FALSE]})

\* a sweep fetched a row exactly at the threshold and merged its dispute,
\* and another dispute is left, of which rows without similarity value are
\* given to the loop
C17_Witness ==
    /\ last.outcome = "stored"
    /\ last.dispute_id \in Ids
    /\ \E i \in DOMAIN last.rows :
          /\ last.rows[i].similarity = SIMILARITY_THRESHOLD_100
          /\ last.rows[i].dispute_id \notin Ids
    /\ \E rows \in SkippedRows(DB, last.dispute_id) :
          \E i \in DOMAIN rows : "similarity" \notin DOMAIN rows[i]

\* C18 (merge direction): after a call on the normal path the call's dispute D
\* exists and holds the email's link; no fetched row is a row of D; the dispute
\* of every row at or above the threshold is gone, its links and embeddings
\* being under D, also when several rows of one dispute were fetched and the
\* merge ran again on the absorbed source.
C18_MergeDirection ==
    [][\A e \in DOMAIN emails :
         (last'.email_id = e /\ last'.outcome = "stored" /\ classified' = classified)
           => /\ last'.dispute_id \in Ids'
              /\ LinkIn(dispute_emails', e) = {last'.dispute_id}
              /\ \A i \in DOMAIN last'.rows :
                    /\ last'.rows[i].dispute_id # last'.dispute_id
                    /\ MergeCandidate(last'.rows[i], SIMILARITY_THRESHOLD_100)
                         => /\ last'.rows[i].dispute_id \notin Ids'
                            /\ \A l \in RowsIn(dispute_emails, last'.rows[i].dispute_id) :
                                  [l EXCEPT !.dispute_id = last'.dispute_id]
                                      \in dispute_emails'
                            /\ \A r \in RowsIn(dispute_embeddings, last'.rows[i].dispute_id) :
                                  [r EXCEPT !.dispute_id = last'.dispute_id]
                                      \in dispute_embeddings']_vars

\* the sweep fetched two rows of one dispute at or above the threshold: the
\* merge ran on it twice
C18_Witness ==
    /\ last.outcome = "stored"
    /\ last.dispute_id \in Ids
    /\ \E i, j \in DOMAIN last.rows :
          /\ i # j
          /\ last.rows[i].dispute_id = last.rows[j].dispute_id
          /\ MergeCandidate(last.rows[i], SIMILARITY_THRESHOLD_100)
          /\ MergeCandidate(last.rows[j], SIMILARITY_THRESHOLD_100)

\* the stores on which the sweep of a call for email e starts: the supplier is
\* resolved, the text is new for it, and the email has its dispute, which is a
\* new one with the email's subject as summary when nothing was near enough
MidCall(e, with_supplier) ==
    LET email_in == [emails[e] EXCEPT
                        !.supplier_id = IF with_supplier THEN @ ELSE NoSupplier]
        resolved == _resolve_supplier_id(DB, email_in.supplier_id)
        email    == [email_in EXCEPT !.supplier_id = resolved.supplier_id]
    IN  IF _find_dispute_by_text(resolved.db, resolved.supplier_id, Render(email_in)) # {}
        THEN {}
        ELSE {x.db : x \in {y \in _ensure_dispute(resolved.db, email, Q(e),
                                                  SIMILARITY_THRESHOLD_100) : ~y.raised}}

\* the summary of target after merge(source, target) on store db
Reconciled(db, source, target) ==
    LET was    == SummaryOf(db, target)
        from   == SummaryOf(db, source)
    IN  \A merged \in _merge_duplicate_dispute(db, source, target) :
          LET now == SummaryOf(merged, target)
          IN  /\ now = IF ~Truthy(was) \/ SLen(from) > SLen(was) THEN from ELSE was
              /\ (Truthy(was) /\ SLen(from) = SLen(was)) => now = was
              /\ Truthy(was) => (Truthy(now) /\ SLen(now) >= SLen(was))

\* C19 (merge summary reconciliation): on every store a call leaves and on
\* every store a sweep starts from, merge(source, target) of two different
\* disputes leaves the target with its own summary unless that is null or
\* empty or the source's is strictly longer, and then with the source's; on
\* equal length the target's is kept; a non-empty summary is never replaced
\* by a shorter or a null one.
C19_SummaryReconciled ==
    \A db \in {DB} \cup UNION {MidCall(e, w) : e \in DOMAIN emails, w \in BOOLEAN} :
        \A source, target \in {c.dispute_id : c \in db.canonical_disputes} :
            source # target => Reconciled(db, source, target)

\* two disputes whose summaries differ and have the same length: the merge
\* keeps the target's
C19_Witness ==
    \E source, target \in Ids :
        /\ source # target
        /\ Truthy(SummaryOf(DB, target))
        /\ SummaryOf(DB, source) # SummaryOf(DB, target)
        /\ SLen(SummaryOf(DB, source)) = SLen(SummaryOf(DB, target))
        /\ \E merged \in _merge_duplicate_dispute(DB, source, target) :
              SummaryOf(merged, target) = SummaryOf(DB, target)

\* the emails a link table gives to dispute d
EmailsIn(links, d) == {l.email_id : l \in RowsIn(links, d)}

\* what merge(source, target) on store db does to the links
LinksPreserved(db, source, target) ==
    \A merged \in _merge_duplicate_dispute(db, source, target) :
      LET before == db.dispute_emails
          after  == merged.dispute_emails
      IN  /\ {l.email_id : l \in after} = {l.email_id : l \in before}
          /\ EmailsIn(after, target) = EmailsIn(before, source) \cup EmailsIn(before, target)
          /\ EmailsIn(after, source) = {}
          /\ \A e \in DOMAIN db.emails :
                /\ Cardinality(LinkIn(after, e)) = Cardinality(LinkIn(before, e))
                /\ LinkIn(before, e) \cap {source, target} = {}
                      => LinkIn(after, e) = LinkIn(before, e)

\* C20 (merge preserves email links): on every store a call leaves and on
\* every store a sweep starts from, merge(source, target) of two different
\* disputes leaves the set of linked emails as it was, the target with
\* exactly the emails of both, and every email with as many links (one or
\* none) as before.
C20_LinksPreserved ==
    \A db \in {DB} \cup UNION {MidCall(e, w) : e \in DOMAIN emails, w \in BOOLEAN} :
        \A source, target \in {c.dispute_id : c \in db.canonical_disputes} :
            source # target => LinksPreserved(db, source, target)

\* a sweep starts with two disputes that both hold emails, one of them two or
\* more: after the merge the target holds all of them
C20_Witness ==
    \E e \in DOMAIN emails, w \in BOOLEAN : \E db \in MidCall(e, w) :
        \E source, target \in {c.dispute_id : c \in db.canonical_disputes} :
            /\ source # target
            /\ Cardinality(EmailsIn(db.dispute_emails, source)) >= 2
            /\ EmailsIn(db.dispute_emails, target) # {}
            /\ \E merged \in _merge_duplicate_dispute(db, source, target) :
                  Cardinality(EmailsIn(merged.dispute_emails, target)) >= 3

\* the stores a merge may be asked to work on: the one a call leaves and the
\* ones a sweep starts from
MergeStores == {DB} \cup UNION {MidCall(e, w) : e \in DOMAIN emails, w \in BOOLEAN}

DisputesOf(db) == {c.dispute_id : c \in db.canonical_disputes}

\* the texts a documents table holds under dispute d
TextsIn(documents, d) == {r.document_text : r \in RowsIn(documents, d)}

\* what merge(source, target) on store db does to the documents
DocumentsMerged(db, source, target) ==
    \A merged \in _merge_duplicate_dispute(db, source, target) :
      LET before == db.dispute_documents
          after  == merged.dispute_documents
      IN  /\ TextsIn(after, target) = TextsIn(before, source) \cup TextsIn(before, target)
          /\ RowsIn(before, target) \subseteq after
          /\ RowsIn(after, source) = {}
          /\ \A doc \in RowsIn(before, source) :
                IF doc.document_text \in TextsIn(before, target)
                THEN \A r \in after : r.id # doc.id
                ELSE /\ [doc EXCEPT !.dispute_id = target] \in after
                     /\ Cardinality({r \in after : r.id = doc.id}) = 1

\* C21 (merge document dedup): merge(source, target) of two different
\* disputes leaves under the target exactly the texts that were under the
\* source or under the target; a document of the source is deleted only when
\* the target held its text, and is otherwise re-parented with its id and
\* text unchanged; the target's own documents stay.
C21_DocumentsMerged ==
    \A db \in MergeStores :
        \A source, target \in DisputesOf(db) :
            source # target => DocumentsMerged(db, source, target)

\* a source and a target that share a text: the source's copy is deleted by
\* the merge and the target's kept
C21_Witness ==
    \E source, target \in Ids :
        /\ source # target
        /\ \E a \in RowsIn(dispute_documents, source), b \in RowsIn(dispute_documents, target) :
              /\ a.document_text = b.document_text
              /\ \E merged \in _merge_duplicate_dispute(DB, source, target) :
                    a \notin merged.dispute_documents /\ b \in merged.dispute_documents

\* what merge(source, target) on store db does to the embeddings
EmbeddingsRelocated(db, source, target) ==
    \A merged \in _merge_duplicate_dispute(db, source, target) :
      LET before == db.dispute_embeddings
          after  == merged.dispute_embeddings
      IN  /\ Cardinality(after) = Cardinality(before)
          /\ RowsIn(after, source) = {}
          /\ \A r \in before :
                \E x \in after :
                   /\ x.id = r.id
                   /\ x.embedding = r.embedding
                   /\ x.supplier_id = r.supplier_id
                   /\ x.model_name = r.model_name
                   /\ x.dispute_id = IF r.dispute_id = source THEN target ELSE r.dispute_id

\* C22 (merge relocates embeddings): merge(source, target) of two different
\* disputes leaves the number of embedding rows and the vector, supplier_id
\* and model_name of each row as they were; every row the source owned is
\* owned by the target afterwards, every other row keeps its owner.
C22_EmbeddingsRelocated ==
    \A db \in MergeStores :
        \A source, target \in DisputesOf(db) :
            source # target => EmbeddingsRelocated(db, source, target)

\* a source and a target that both own embeddings: the target owns all of
\* them after the merge
C22_Witness ==
    \E source, target \in Ids :
        /\ source # target
        /\ RowsIn(dispute_embeddings, source) # {}
        /\ RowsIn(dispute_embeddings, target) # {}
        /\ \E merged \in _merge_duplicate_dispute(DB, source, target) :
              Cardinality(RowsIn(merged.dispute_embeddings, target))
                 = Cardinality(RowsIn(dispute_embeddings, source))
                     + Cardinality(RowsIn(dispute_embeddings, target))

\* the vectors of the inbox
Vectors == {Q(e) : e \in DOMAIN emails}

\* the supplier_ids an email may be handed over with
SupplierIds == {NoSupplier} \cup {r.supplier_id : r \in suppliers}

\* C23 (already-linked email): in every reachable state, _ensure_dispute for
\* an email that has a link returns the linked dispute and leaves the store as
\* it is: no dispute is created, no link added or re-pointed, nothing raised,
\* whichever vector the email has (near to other disputes or not) and whether
\* it carries a supplier_id or none; a call that took this branch leaves the
\* email linked to the dispute it returned.
C23_LinkedEmailKept ==
    /\ \A e \in DOMAIN emails :
          LinkOf(e) # {}
            => \A s \in SupplierIds, q \in Vectors :
                  \A r \in _ensure_dispute(DB, [emails[e] EXCEPT !.supplier_id = s], q,
                                           SIMILARITY_THRESHOLD_100) :
                     /\ r.db = DB
                     /\ r.dispute_id \in LinkOf(e)
                     /\ ~r.created
                     /\ ~r.raised
    /\ (last.outcome = "stored" /\ ~last.created /\ last.match = <<>>)
          => LinkOf(last.email_id) = {last.dispute_id}

\* an email is linked to one dispute while its vector is at or above the
\* threshold to an embedding of another dispute of its supplier, and the
\* last call found the link of its email
C23_Witness ==
    /\ \E e \in DOMAIN emails :
          /\ LinkOf(e) # {}
          /\ \E r \in dispute_embeddings :
                /\ r.dispute_id \notin LinkOf(e)
                /\ r.supplier_id = emails[e].supplier_id
                /\ Similarity(r.embedding, Q(e)) >= SIMILARITY_THRESHOLD_100
    /\ last.outcome = "stored" /\ ~last.created /\ last.match = <<>>

\* the documents that make the exact-text lookup of a call for email e under
\* supplier s succeed
SameText(e, s) ==
    {r \in dispute_documents :
        r.supplier_id = s /\ r.document_text = Render(emails[e])}

\* what a call for email e that took the fast path left of the dispute
\* tables: no dispute, document or embedding created or removed, no
\* similarity query, no merge, at most the email's link added and the
\* dispute's summary updated
FastFrame(e) ==
    /\ last'.dispute_id \in {r.dispute_id : r \in SameText(e, last'.supplier_id)}
    /\ last'.embed_calls = 0 /\ last'.match = <<>> /\ last'.rows = <<>>
    /\ dispute_documents' = dispute_documents
    /\ dispute_embeddings' = dispute_embeddings
    /\ dispute_emails' \in
          {dispute_emails,
           dispute_emails \cup {[dispute_id |-> last'.dispute_id, email_id |-> e]}}
    /\ Ids' = Ids
    /\ \A c \in canonical_disputes :
          \/ c \in canonical_disputes'
          \/ /\ c.dispute_id = last'.dispute_id
             /\ [c EXCEPT !.dispute_summary = last'.summary_after] \in canonical_disputes'

\* the call for email e took the fast path exactly when the resolved supplier
\* held the text: the text under another supplier does not count
FastExactly(e) ==
    (last'.outcome = "fast") <=> (SameText(e, last'.supplier_id) # {})

\* C24 as stated: a call that takes the fast path changes nothing but the
\* email's link and the dispute's summary.
C24_FastPathChangesNothingElse ==
    [][\A e \in DOMAIN emails :
         (last'.email_id = e /\ last'.outcome = "fast")
           => /\ FastFrame(e)
              /\ suppliers' = suppliers
              /\ emails' = emails]_vars

\* C24 (fast-path frame), amended: a call that takes the fast path creates no
\* dispute, document or embedding, runs no similarity query and no merge, and
\* changes nothing in the dispute tables but the email's link and the
\* dispute's summary; outside them it changes nothing but the supplier_id of
\* the email's row, which becomes the resolved supplier when the email was
\* handed over without one; the path is taken exactly when a document of the
\* resolved supplier has the text.
C24_FastPathFrame ==
    [][\A e \in DOMAIN emails :
         last'.email_id = e
           => /\ FastExactly(e)
              /\ last'.outcome = "fast"
                   => /\ FastFrame(e)
                      /\ suppliers' = suppliers
                      /\ emails' = [emails EXCEPT ![e].supplier_id =
                                       IF last'.supplier_in = NoSupplier
                                       THEN last'.supplier_id ELSE @]]_vars

\* the last call took the fast path, linked its email and replaced the
\* summary, while another supplier holds the same text under another dispute
C24_Witness ==
    /\ last.outcome = "fast"
    /\ last.summary_after # last.summary_before
    /\ LinkOf(last.email_id) = {last.dispute_id}
    /\ \E r \in dispute_documents :
          /\ r.document_text = Render(emails[last.email_id])
          /\ r.supplier_id # last.supplier_id
          /\ r.dispute_id # last.dispute_id

\* the candidate of the summary update rule: the subject when it is
\* non-empty, otherwise the first SUMMARY_MAX_LEN characters of the body
RuleCandidate(email) ==
    IF Truthy(email.subject) THEN email.subject
    ELSE IF Truthy(email.body) THEN Truncate(email.body, SUMMARY_MAX_LEN)
    ELSE <<>>

\* the summary the rule leaves, given the one it finds
RuleSummary(current, candidate) ==
    IF candidate = <<>> THEN current
    ELSE IF ~Truthy(current) THEN candidate
    ELSE IF ~IsSubstring(Lower(candidate), Lower(current))
            /\ Len(candidate) >= Len(current)
    THEN candidate
    ELSE current

\* C25 (summary update rule): the update of a committed call leaves the
\* summary the rule gives for the summary it found and the candidate of the
\* email: the subject when non-empty, otherwise the first 280 characters of
\* the body; set when there was none, replaced exactly when the candidate is
\* not a case-insensitive substring of it and at least as long, otherwise
\* unchanged.
C25_SummaryRule ==
    [][\A e \in DOMAIN emails :
         (last'.email_id = e /\ Committed(last'))
           => last'.summary_after
                 = RuleSummary(last'.summary_before, RuleCandidate(emails[e]))]_vars

\* C26 (ownership under concurrency): when calls for different emails of one
\* supplier overlap, one reusing a dispute or linking to it on the fast path
\* while the sweep of the other merges it away, no committed state holds a
\* link, a document or an embedding whose dispute_id no row of
\* canonical_disputes has.
C26_OwnershipUnderConcurrency ==
    /\ \A l \in dispute_emails : l.dispute_id \in Ids
    /\ \A r \in dispute_documents : r.dispute_id \in Ids
    /\ \A r \in dispute_embeddings : r.dispute_id \in Ids


\* C28 (supplier-wide text uniqueness): in every state reached by calls made
\* one at a time from the empty store, no two documents of one supplier have
\* the same text, in the same dispute or in different ones, so the exact-text
\* lookup for a supplier and a text finds at most one dispute.
C28_SupplierTextUnique ==
    /\ \A a, b \in dispute_documents :
          (a.supplier_id = b.supplier_id /\ a.document_text = b.document_text) => a = b
    /\ \A e \in DOMAIN emails, s \in {r.supplier_id : r \in suppliers} :
          Cardinality(_find_dispute_by_text(DB, s, Render(emails[e]))) <= 1

\* one text is stored under two suppliers, in two disputes; for each of the
\* suppliers the lookup finds its dispute alone
C28_Witness ==
    \E a, b \in dispute_documents :
        /\ a.document_text = b.document_text
        /\ a.supplier_id # b.supplier_id
        /\ a.dispute_id # b.dispute_id
        /\ _find_dispute_by_text(DB, a.supplier_id, a.document_text) = {a.dispute_id}
        /\ _find_dispute_by_text(DB, b.supplier_id, b.document_text) = {b.dispute_id}

\* C29 (no empty dispute): in every state reached by calls made one at a time
\* from the empty store, every dispute owns at least one link, at least one
\* document and at least one embedding.
C29_NoEmptyDispute ==
    \A d \in Ids :
        /\ RowsIn(dispute_emails, d) # {}
        /\ RowsIn(dispute_documents, d) # {}
        /\ RowsIn(dispute_embeddings, d) # {}

\* the sweep of the last call absorbed a dispute and deleted its document, a
\* duplicate; the target holds several emails and fewer documents than
\* embeddings
C29_Witness ==
    /\ last.outcome = "stored"
    /\ last.removed_documents # {}
    /\ last.dispute_id \in Ids
    /\ Cardinality(RowsIn(dispute_emails, last.dispute_id)) >= 2
    /\ Cardinality(RowsIn(dispute_documents, last.dispute_id))
          < Cardinality(RowsIn(dispute_embeddings, last.dispute_id))

\* the rows of a table that belong to neither of two disputes
Others(table, source, target) ==
    {r \in table : r.dispute_id \notin {source, target}}

\* id and supplier_id of the rows of a table
SuppliersIn(table) == {<<r.id, r.supplier_id>> : r \in table}

\* what merge(source, target) on store db leaves alone
MergeFrame(db, source, target) ==
    \A after \in _merge_duplicate_dispute(db, source, target) :
        /\ Others(after.canonical_disputes, source, target)
              = Others(db.canonical_disputes, source, target)
        /\ Others(after.dispute_emails, source, target)
              = Others(db.dispute_emails, source, target)
        /\ Others(after.dispute_documents, source, target)
              = Others(db.dispute_documents, source, target)
        /\ Others(after.dispute_embeddings, source, target)
              = Others(db.dispute_embeddings, source, target)
        /\ \A c \in after.canonical_disputes :
              \E b \in db.canonical_disputes :
                 b.dispute_id = c.dispute_id /\ b.supplier_id = c.supplier_id
        /\ SuppliersIn(after.dispute_documents) \subseteq SuppliersIn(db.dispute_documents)
        /\ SuppliersIn(after.dispute_embeddings) = SuppliersIn(db.dispute_embeddings)
        /\ after.suppliers = db.suppliers
        /\ after.emails = db.emails

\* C30 (merge frame): merge(source, target) of two different disputes leaves
\* every other dispute as it was, with its summary, links, documents and
\* embeddings, changes the supplier_id of no dispute, document or embedding,
\* and leaves the suppliers and the emails alone.
C30_MergeFrame ==
    \A db \in MergeStores :
        \A source, target \in DisputesOf(db) :
            source # target => MergeFrame(db, source, target)

\* three disputes, each with a summary, links, documents and embeddings, two
\* of them of different suppliers: these two are merged, the third is left
C30_Witness ==
    \E source, target, other \in Ids :
        /\ Cardinality({source, target, other}) = 3
        /\ SupplierOf(source) # SupplierOf(target)
        /\ RowsIn(dispute_emails, other) # {}
        /\ RowsIn(dispute_documents, other) # {}
        /\ RowsIn(dispute_embeddings, other) # {}
        /\ \E merged \in _merge_duplicate_dispute(DB, source, target) :
              RowsIn(merged.dispute_embeddings, other) = RowsIn(dispute_embeddings, other)

\* the emails the call fetched
FetchedEmails == {classifier.rows[k] : k \in DOMAIN classifier.rows}

\* what holds when classify_pending_emails has returned
HandedOff ==
    /\ classifier.returned = Len(classifier.rows)
    /\ Len(classifier.rows) <= classifier.limit
    /\ \A e \in FetchedEmails : classified[e].processed
    /\ \A e \in DOMAIN emails :
          LinkOf(e) # {} <=> (e \in FetchedEmails /\ classified[e].label = "dispute")

\* C31 (classification hand-off completes): for every set of unprocessed
\* emails, classify_pending_emails returns; on return the value is the number
\* of emails fetched, at most limit, every fetched email is marked processed
\* and exactly the fetched emails labelled a dispute have a link; also when a
\* dispute email has no supplier_id.
C31_HandOffCompletes ==
    /\ <>(classifier.pc = "returned")
    /\ [](classifier.pc = "returned" => HandedOff)

====
